---- MODULE Spec2Model ----
(***************************************************************************)
(* A model of moma-rl-ad: the ReplayBuffer of src/utils.py, the training   *)
(* loop, epsilon decay and reward summary of src/MOMA_DQN.py.              *)
(*                                                                         *)
(* Tensor elements are exact rationals [n, d] (d = 0 is not-a-number);     *)
(* the replay buffer stores them rounded to IEEE single precision, the     *)
(* element type of torch.zeros.  Python floats that the claims compare for *)
(* exact equality (epsilon) are IEEE doubles, kept as fixed-point limbs.   *)
(***************************************************************************)
EXTENDS Integers, Sequences, FiniteSets, TLC

VARIABLES
    rb,             \* ReplayBuffer configuration set by __init__
    buffer,         \* ReplayBuffer.buffer: size rows of 2L+O+3 elements
    running_index,  \* ReplayBuffer.running_index (0-based)
    num_elements,   \* ReplayBuffer.num_elements
    pushes,         \* successful push calls so far, and the rows they wrote
    last,           \* the last call on the buffer and what it returned
    epsilon,        \* MOMA_DQN.epsilon, an IEEE double
    eps_args,       \* the arguments reduce_epsilon is called with
    eps_calls,      \* calls of reduce_epsilon so far
    hp,             \* construction parameters and arguments of train
    pc,             \* the position reached in train
    raised,         \* what raised, when train ended with an error
    episode_nr,     \* train's loop variable
    counts,         \* environment steps and sample calls made by train
    num_of_conducted_optimisation_steps,
    policy_net,     \* version of the policy network's parameters
    target_net,     \* version of the target network's parameters
    loss_logger,    \* MOMA_DQN.loss_logger: (episode, loss) entries
    hv_logger,      \* train's hv_logger: (episode, hypervolume) entries
    occ_log,        \* buffer occupancy at the end of each episode's steps
    df,             \* the table train returns
    orch,           \* objective weights of the orchestrator and of the vehicles of self.env
    reward_call,    \* one call of compute_reward_summary and its result
    env_call,       \* one call of MOHighwayEnv._reward and its result
    cheb,           \* a ChebyshevScalarisation object and the calls made on it
    lin_call,       \* calls of LinearScalarisation.scalarise_actions
    act_call,       \* one call of MOMA_DQN.act and its result
    ctor_call,      \* one construction of MOMA_DQN and its outcome
    ev              \* the state of one call of MOMA_DQN.evaluate

bufVars == <<rb, buffer, running_index, num_elements, pushes, last>>

epsVars == <<epsilon, eps_args, eps_calls>>

trainVars == <<hp, pc, raised, episode_nr, counts, num_of_conducted_optimisation_steps,
               policy_net, target_net, loss_logger, hv_logger, occ_log, df, orch>>

auxVars == <<env_call, cheb, lin_call, act_call, ctor_call, ev>>

vars == <<bufVars, epsVars, trainVars, reward_call, auxVars>>

-----------------------------------------------------------------------------
(* Bounds of the model.                                                    *)

MaxCap == 2        \* buffer capacities 1..MaxCap
MaxDim == 2        \* observation lengths and objective counts 1..MaxDim
MaxVehicles == 2   \* controlled vehicles 1..MaxVehicles
MaxIter == 10      \* max_iteration of reduce_epsilon 1..MaxIter
MaxEpisodes == 3   \* num_episodes of train 0..MaxEpisodes
MaxSteps == 2      \* environment steps after which an episode is truncated

\* MOMA_DQN.__init__: num_actions and num_objectives
NumActions == 5

DefaultObjectives == 2

-----------------------------------------------------------------------------
(* Exact rationals.                                                        *)

Abs(x) == IF x < 0 THEN -x ELSE x

Min2(a, b) == IF a <= b THEN a ELSE b

Max2(a, b) == IF a >= b THEN a ELSE b

RECURSIVE Gcd(_, _)
Gcd(a, b) == IF b = 0 THEN a ELSE Gcd(b, a % b)

RECURSIVE Pow2(_)
Pow2(k) == IF k = 0 THEN 1 ELSE 2 * Pow2(k - 1)

NaN == [n |-> 0, d |-> 0]

IsNaN(x) == x.d = 0

Rat(n, d) ==
    IF d = 0 THEN NaN
    ELSE LET g == Gcd(Abs(n), Abs(d))
             s == IF d < 0 THEN -1 ELSE 1
         IN  [n |-> (s * n) \div g, d |-> (s * d) \div g]

R(i) == [n |-> i, d |-> 1]

RAdd(x, y) == IF IsNaN(x) \/ IsNaN(y) THEN NaN ELSE Rat(x.n * y.d + y.n * x.d, x.d * y.d)

RMul(x, y) == IF IsNaN(x) \/ IsNaN(y) THEN NaN ELSE Rat(x.n * y.n, x.d * y.d)

RDivInt(x, k) == IF IsNaN(x) THEN NaN ELSE Rat(x.n, x.d * k)

RLess(x, y) == x.n * y.d < y.n * x.d

\* a / b rounded to the nearest integer, ties to even (a >= 0, b > 0)
RoundHalfEven(a, b) ==
    LET q == a \div b
        r == a % b
    IN  IF 2 * r > b \/ (2 * r = b /\ q % 2 = 1) THEN q + 1 ELSE q

\* floor(log2(n / d)) for n, d > 0
RECURSIVE Exp2(_, _)
Exp2(n, d) ==
    IF n >= 2 * d THEN Exp2(n, 2 * d) + 1
    ELSE IF n < d THEN Exp2(2 * n, d) - 1
    ELSE 0

\* The float32 nearest to n / d (n, d > 0): 24 significant bits, ties to even.
F32Mag(n, d) ==
    LET e == Exp2(n, d)
    IN  IF e >= 23
        THEN LET scale == Pow2(e - 23) IN Rat(RoundHalfEven(n, d * scale) * scale, 1)
        ELSE LET scale == Pow2(23 - e) IN Rat(RoundHalfEven(n * scale, d), scale)

\* Conversion of a number to the buffer's element type on assignment.
ToFloat32(x) ==
    IF IsNaN(x) \/ x.n = 0 THEN x
    ELSE IF x.d = 1 /\ Abs(x.n) <= Pow2(24) THEN x
    ELSE LET m == F32Mag(Abs(x.n), x.d)
         IN  IF x.n < 0 THEN [n |-> -m.n, d |-> m.d] ELSE m

\* tensor.to(torch.int64): truncation toward zero
ToInt64(x) == IF x.n >= 0 THEN x.n \div x.d ELSE -((-x.n) \div x.d)

\* tensor.to(torch.bool): anything but zero is true
ToBool(x) == x.n # 0 \/ x.d = 0

BoolToNum(b) == IF b THEN R(1) ELSE R(0)

\* Python's round() of the rational a / b (b > 0): ties to even
PyRound(a, b) == IF a >= 0 THEN RoundHalfEven(a, b) ELSE -RoundHalfEven(-a, b)

-----------------------------------------------------------------------------
(* IEEE doubles in [0, 1): the integer N of the value N * 2^-60, as four   *)
(* limbs of 15 bits, most significant first.  Every double that is 0 or at *)
(* least 2^-8 lies on this grid; a result is rounded to 53 significant     *)
(* bits, ties to even.                                                     *)

LimbBase == Pow2(15)

DZero == <<0, 0, 0, 0>>

\* 0.9, 0.5 and 0.1 as the nearest doubles
Double_0_9 == <<29491, 6553, 19660, 26240>>

Double_0_5 == <<16384, 0, 0, 0>>

Double_0_1 == <<3276, 26214, 13107, 6560>>

DLess(x, y) == \E i \in 1..4 : x[i] < y[i] /\ \A j \in 1..(i - 1) : x[j] = y[j]

\* Python's max(a, b): b only when it is greater
DMax(a, b) == IF DLess(a, b) THEN b ELSE a

\* x - y on the grid, for x >= y
DSub(x, y) ==
    LET d4 == x[4] - y[4]
        b4 == IF d4 < 0 THEN 1 ELSE 0
        d3 == x[3] - y[3] - b4
        b3 == IF d3 < 0 THEN 1 ELSE 0
        d2 == x[2] - y[2] - b3
        b2 == IF d2 < 0 THEN 1 ELSE 0
        d1 == x[1] - y[1] - b2
    IN  <<d1, d2 + b2 * LimbBase, d3 + b3 * LimbBase, d4 + b4 * LimbBase>>

\* x + k on the grid, for 0 <= k <= LimbBase
DAddSmall(x, k) ==
    LET s4 == x[4] + k
        s3 == x[3] + s4 \div LimbBase
        s2 == x[2] + s3 \div LimbBase
        s1 == x[1] + s2 \div LimbBase
    IN  <<s1, s2 % LimbBase, s3 % LimbBase, s4 % LimbBase>>

\* floor(x / m) and the remainder, for 1 <= m < LimbBase
DDivInt(x, m) ==
    LET c1 == x[1]
        c2 == (c1 % m) * LimbBase + x[2]
        c3 == (c2 % m) * LimbBase + x[3]
        c4 == (c3 % m) * LimbBase + x[4]
    IN  [q |-> <<c1 \div m, c2 \div m, c3 \div m, c4 \div m>>, r |-> c4 % m]

RECURSIVE BitLen(_)
BitLen(a) == IF a = 0 THEN 0 ELSE 1 + BitLen(a \div 2)

DBitLen(x) ==
    IF x[1] > 0 THEN 45 + BitLen(x[1])
    ELSE IF x[2] > 0 THEN 30 + BitLen(x[2])
    ELSE IF x[3] > 0 THEN 15 + BitLen(x[3])
    ELSE BitLen(x[4])

\* The double nearest to q + r/m (0 <= r < m), ties to even.  At most seven
\* bits are dropped, all of them in the lowest limb.
DRound(q, r, m) ==
    LET drop == Max2(0, DBitLen(q) - 53)
        unit == Pow2(drop)
        low == q[4] % unit
        kept_odd == (q[4] \div unit) % 2 = 1
        up == IF drop = 0
              THEN 2 * r > m \/ (2 * r = m /\ kept_odd)
              ELSE 2 * low > unit \/ (2 * low = unit /\ (r # 0 \/ kept_odd))
    IN  DAddSmall([q EXCEPT ![4] = q[4] - low], IF up THEN unit ELSE 0)

\* x - y and x / m in double arithmetic
Float64Sub(x, y) == DRound(DSub(x, y), 0, 1)

Float64DivInt(x, m) == DRound(DDivInt(x, m).q, DDivInt(x, m).r, m)

-----------------------------------------------------------------------------
(* ReplayBuffer (src/utils.py).                                            *)

\* Number of columns of a row: +3 for action, termination flag and id.
RowWidth(cfg) == cfg.observation_space_size * 2 + cfg.num_objectives + 3

\* ReplayBuffer.__init__: the configuration it records
ReplayBufferCfg(buffer_size, observation_space_shape, n_objectives, imp, prio) ==
    [size |-> buffer_size,
     observation_space_size |-> observation_space_shape,
     num_objectives |-> n_objectives,
     importance_sampling |-> imp,
     prioritise_crashes |-> prio]

\* ReplayBuffer.__init__: the zero-filled buffer and the two counters
ReplayBufferInit(cfg) ==
    [buffer |-> [i \in 1..cfg.size |-> [j \in 1..RowWidth(cfg) |-> R(0)]],
     running_index |-> 0,
     num_elements |-> 0]

\* Variant: the occupancy counter does not saturate at the capacity.
IncrementIndicesUnsaturated(cfg, st) ==
    [st EXCEPT !.running_index = (st.running_index + 1) % cfg.size,
               !.num_elements = st.num_elements + 1]

__increment_indices(cfg, st) ==
    [st EXCEPT !.running_index = (st.running_index + 1) % cfg.size,
               !.num_elements = IF st.num_elements < cfg.size
                                THEN st.num_elements + 1 ELSE st.num_elements]

\* self.buffer[self.running_index] = elem, then __increment_indices.  The
\* assignment converts to float32 and raises when elem has the wrong length.
StoreRow(cfg, st, elem) ==
    IF Len(elem) # RowWidth(cfg)
    THEN [ok |-> FALSE, st |-> st]
    ELSE [ok |-> TRUE,
          st |-> __increment_indices(cfg,
                    [st EXCEPT !.buffer[st.running_index + 1] =
                                   [j \in 1..Len(elem) |-> ToFloat32(elem[j])]])]

\* torch.concatenate of the six parts of one transition
Concatenate(obs, action, next_obs, reward, terminated, id) ==
    obs \o <<R(action)>> \o next_obs \o reward \o <<BoolToNum(terminated)>> \o <<id>>

\* The loop of the multi-agent branch, from sample i (1-based) on.  An index
\* past the end of an argument raises after the earlier rows were written.
RECURSIVE PushLoop(_, _, _, _, _)
PushLoop(cfg, st, a, id, i) ==
    IF i > a.num_samples THEN [ok |-> TRUE, st |-> st]
    ELSE IF i > Len(a.obs) \/ i > Len(a.action) \/ i > Len(a.next_obs)
            \/ i > Len(a.reward) \/ i > Len(a.terminated)
    THEN [ok |-> FALSE, st |-> st]
    ELSE LET r == StoreRow(cfg, st, Concatenate(a.obs[i], a.action[i], a.next_obs[i],
                                                a.reward[i], a.terminated[i], id))
         IN  IF r.ok THEN PushLoop(cfg, r.st, a, id, i + 1) ELSE r

\* Variant: the id is tested for truth, so that an id of 0 counts as absent.
PushAssertsTruthy(cfg, a) ==
    /\ a.num_samples >= 1
    /\ (~cfg.importance_sampling) \/ (a.id.given /\ a.id.val # R(0))

\* The two assertions that open push.
PushAsserts(cfg, a) ==
    /\ a.num_samples >= 1
    /\ (~cfg.importance_sampling) \/ a.id.given

\* ReplayBuffer.push.  a.batched tells whether the arguments are Python
\* sequences holding one item per sample (what train passes) or single
\* tensors: a list has no flatten(), and indexing a reward vector gives a
\* zero-dimensional tensor that concatenate rejects.
push(cfg, st, a) ==
    IF ~PushAsserts(cfg, a) THEN [ok |-> FALSE, st |-> st]
    ELSE LET id == IF ~cfg.importance_sampling THEN R(0) ELSE a.id.val
         IN  IF a.num_samples = 1
             THEN IF a.batched THEN [ok |-> FALSE, st |-> st]
                  ELSE StoreRow(cfg, st, Concatenate(a.obs, a.action, a.next_obs,
                                                     a.reward, a.terminated, id))
             ELSE IF ~a.batched THEN [ok |-> FALSE, st |-> st]
                  ELSE PushLoop(cfg, st, a, id, 1)

\* Variant: the least id is taken over all rows, the unoccupied ones too.
ImportanceProbsWholeBuffer(cfg, st) ==
    LET imp_sampling_ids == [i \in 1..cfg.size |-> st.buffer[i][RowWidth(cfg)]]
        min_id == CHOOSE m \in {imp_sampling_ids[i] : i \in 1..cfg.size} :
                      \A i \in 1..cfg.size : ~RLess(imp_sampling_ids[i], m)
    IN  [i \in 1..st.num_elements |->
            RAdd(RAdd(imp_sampling_ids[i], [n |-> -min_id.n, d |-> min_id.d]), R(1))]

\* ReplayBuffer.compute_importance_sampling_probs
compute_importance_sampling_probs(cfg, st) ==
    LET imp_sampling_ids == [i \in 1..st.num_elements |-> st.buffer[i][RowWidth(cfg)]]
        min_id == CHOOSE m \in {imp_sampling_ids[i] : i \in 1..st.num_elements} :
                      \A i \in 1..st.num_elements : ~RLess(imp_sampling_ids[i], m)
    IN  [i \in 1..st.num_elements |->
            RAdd(RAdd(imp_sampling_ids[i], [n |-> -min_id.n, d |-> min_id.d]), R(1))]

RECURSIVE SumSeq(_, _)
SumSeq(s, k) == IF k = 0 THEN R(0) ELSE RAdd(SumSeq(s, k - 1), s[k])

\* ReplayBuffer.sample up to the normalisation: the selection weights
SampleWeights(cfg, st) ==
    LET base == IF cfg.importance_sampling
                THEN compute_importance_sampling_probs(cfg, st)
                ELSE [i \in 1..st.num_elements |-> Rat(1, st.num_elements)]
    IN  IF cfg.prioritise_crashes
        THEN [i \in 1..st.num_elements |->
                 IF ToBool(st.buffer[i][RowWidth(cfg) - 1])
                 THEN RMul(base[i], R(2)) ELSE base[i]]
        ELSE base

\* sample_probs / torch.cumsum(sample_probs)[-1]
SampleProbs(cfg, st) ==
    LET w == SampleWeights(cfg, st)
        total == SumSeq(w, Len(w))
    IN  [i \in 1..Len(w) |-> Rat(w[i].n * total.d, w[i].d * total.n)]

\* Variant: the rounded size without the floor of 1.
SampleCountUnfloored(sample_size) == PyRound(sample_size.n, sample_size.d)

\* size = max(1, round(sample_size)) of rng.choice
SampleCount(sample_size) == Max2(1, PyRound(sample_size.n, sample_size.d))

\* Column accessors over a batch of rows.
get_observations(cfg, samples) ==
    [b \in 1..Len(samples) |-> SubSeq(samples[b], 1, cfg.observation_space_size)]

get_actions(cfg, samples) ==
    [b \in 1..Len(samples) |->
        [o \in 1..cfg.num_objectives |->
            <<ToInt64(samples[b][cfg.observation_space_size + 1])>>]]

\* Variant: the slice starts at the action column.
GetNextObsFromAction(cfg, samples) ==
    [b \in 1..Len(samples) |->
        SubSeq(samples[b], cfg.observation_space_size + 1,
               cfg.observation_space_size * 2)]

get_next_obs(cfg, samples) ==
    [b \in 1..Len(samples) |->
        SubSeq(samples[b], cfg.observation_space_size + 2,
               cfg.observation_space_size * 2 + 1)]

get_rewards(cfg, samples) ==
    [b \in 1..Len(samples) |->
        SubSeq(samples[b], cfg.observation_space_size * 2 + 2, Len(samples[b]) - 2)]

get_termination_flag(cfg, samples) ==
    [b \in 1..Len(samples) |-> ToBool(samples[b][Len(samples[b]) - 1])]

get_importance_sampling_id(cfg, samples) ==
    [b \in 1..Len(samples) |-> samples[b][Len(samples[b])]]

-----------------------------------------------------------------------------
(* MOMA_DQN (src/MOMA_DQN.py).                                             *)

\* Variant: the decay step is half of (eps_start - eps_end) / max_iteration.
ReduceEpsilonHalfStep(eps, max_iteration, eps_start, eps_end) ==
    IF max_iteration = 0 THEN [ok |-> FALSE, epsilon |-> eps]
    ELSE LET step == Float64DivInt(Float64Sub(eps_start, eps_end), 2 * max_iteration)
         IN  [ok |-> TRUE,
              epsilon |-> IF DLess(eps, step) THEN eps_end
                          ELSE DMax(eps_end, Float64Sub(eps, step))]

\* MOMA_DQN.reduce_epsilon, for 0 <= eps_end <= eps_start: the new epsilon,
\* or the ZeroDivisionError of max_iteration = 0.  A negative difference is
\* below eps_end, so that max returns eps_end.
reduce_epsilon(eps, max_iteration, eps_start, eps_end) ==
    IF max_iteration = 0 THEN [ok |-> FALSE, epsilon |-> eps]
    ELSE LET step == Float64DivInt(Float64Sub(eps_start, eps_end), max_iteration)
         IN  [ok |-> TRUE,
              epsilon |-> IF DLess(eps, step) THEN eps_end
                          ELSE DMax(eps_end, Float64Sub(eps, step))]

\* Variant: all-zero weight rows are left as they are.
KeepZeroRows(weights, num_objectives) ==
    [k \in 1..Len(weights) |-> weights[k]]

\* weights[torch.all(weights == 0, dim=1)] = 1/self.num_objectives
ReplaceZeroRows(weights, num_objectives) ==
    [k \in 1..Len(weights) |->
        IF \A o \in 1..Len(weights[k]) : weights[k][o] = R(0)
        THEN [o \in 1..Len(weights[k]) |-> Rat(1, num_objectives)]
        ELSE weights[k]]

\* r * weights, broadcasting a single row over the rows of the other operand
WeightedReward(r, weights) ==
    LET a == Len(r)
        b == Len(weights)
        rows == IF a = 1 THEN b ELSE a
    IN  IF a # b /\ a # 1 /\ b # 1 THEN [ok |-> FALSE, val |-> <<>>]
        ELSE [ok |-> TRUE,
              val |-> [k \in 1..rows |->
                         [o \in 1..Len(r[1]) |->
                             RMul(r[IF a = 1 THEN 1 ELSE k][o],
                                  weights[IF b = 1 THEN 1 ELSE k][o])]]]

\* torch.mean(weighted_reward, dim=0)
MeanOverRows(m, num_objectives) ==
    [o \in 1..num_objectives |->
        IF Len(m) = 0 THEN NaN
        ELSE RDivInt(SumSeq([k \in 1..Len(m) |-> m[k][o]], Len(m)), Len(m))]

\* Variant: the crashed flag is ignored and row 0 is weighted like any other.
VehicleSummaryNoShortCircuit(cfg, r, vehicle_weights, is_crashed) ==
    LET weights == ReplaceZeroRows(vehicle_weights, cfg.num_objectives)
        wr == WeightedReward(r, weights)
    IN  IF Len(r) = 0 \/ Len(vehicle_weights) = 0 \/ ~wr.ok
        THEN [ok |-> FALSE, val |-> <<>>]
        ELSE [ok |-> TRUE, val |-> wr.val[1]]

\* The body of the loop of compute_reward_summary for one vehicle: r is its
\* raw reward matrix, vehicle_weights its list of weight vectors.
VehicleSummary(cfg, r, vehicle_weights, is_crashed) ==
    IF is_crashed
    THEN IF Len(r) = 0 THEN [ok |-> FALSE, val |-> <<>>]
         ELSE [ok |-> TRUE, val |-> r[1]]
    ELSE IF Len(vehicle_weights) = 0 THEN [ok |-> FALSE, val |-> <<>>]
    ELSE LET weights == ReplaceZeroRows(vehicle_weights, cfg.num_objectives)
             excess_is_nan == \A k \in (Len(weights) + 1)..Len(r) :
                                  \A o \in 1..Len(r[k]) : IsNaN(r[k][o])
             cut == IF Len(r) > Len(weights) THEN SubSeq(r, 1, Len(weights)) ELSE r
             wr == WeightedReward(cut, weights)
         IN  IF Len(r) > Len(weights) /\ ~excess_is_nan THEN [ok |-> FALSE, val |-> <<>>]
             ELSE IF ~wr.ok THEN [ok |-> FALSE, val |-> <<>>]
             ELSE IF cfg.reward_structure = "mean_reward"
             THEN [ok |-> TRUE, val |-> MeanOverRows(wr.val, cfg.num_objectives)]
             ELSE IF cfg.reward_structure = "ego_reward"
             THEN IF Len(wr.val) = 0 THEN [ok |-> FALSE, val |-> <<>>]
                  ELSE [ok |-> TRUE, val |-> wr.val[1]]
             ELSE [ok |-> FALSE, val |-> <<>>]

\* The loop over the controlled vehicles, from vehicle i (1-based) on
RECURSIVE RewardLoop(_, _, _, _, _, _)
RewardLoop(cfg, rewards, obj_weights, crashed, i, reward_summary) ==
    IF i > cfg.num_controlled_vehicles THEN [ok |-> TRUE, val |-> reward_summary]
    ELSE IF i > Len(rewards) \/ i > Len(crashed) THEN [ok |-> FALSE, val |-> <<>>]
    ELSE IF ~crashed[i] /\ i > Len(obj_weights) THEN [ok |-> FALSE, val |-> <<>>]
    ELSE LET v == VehicleSummary(cfg, rewards[i],
                                 IF i <= Len(obj_weights) THEN obj_weights[i] ELSE <<>>,
                                 crashed[i])
         IN  IF v.ok
             THEN RewardLoop(cfg, rewards, obj_weights, crashed, i + 1,
                             Append(reward_summary, v.val))
             ELSE [ok |-> FALSE, val |-> <<>>]

\* MOMA_DQN.compute_reward_summary: the list of summaries, or a raised error
compute_reward_summary(cfg, rewards, obj_weights, crashed) ==
    IF Len(rewards) = 0 THEN [ok |-> FALSE, val |-> <<>>]
    ELSE RewardLoop(cfg, rewards, obj_weights, crashed, 1, <<>>)

\* MOMA_DQN.__init__: batch_ratio
BatchRatio == Rat(1, 5)

\* Variant: an optimisation step is due as soon as the buffer is not empty.
OptimisationDueNonEmpty(ep, inv_optimisation_frequency, occupancy, rb_size) ==
    (ep % inv_optimisation_frequency) = 0 /\ occupancy > 0

\* train: the condition under which __update_weights is called
OptimisationDue(ep, inv_optimisation_frequency, occupancy, rb_size) ==
    (ep % inv_optimisation_frequency) = 0 /\ occupancy = rb_size

\* Variant: the one-based optimisation-step counter is tested.
TargetSyncDueOneBased(current_optimisation_iteration, inv_target_update_frequency) ==
    ((current_optimisation_iteration + 1) % inv_target_update_frequency) = 0

\* __update_weights: the condition under which the target network is overwritten
TargetSyncDue(current_optimisation_iteration, inv_target_update_frequency) ==
    (current_optimisation_iteration % inv_target_update_frequency) = 0

\* train: eval_interval = round(num_episodes / num_evaluations)
EvalInterval(num_episodes, num_evaluations) == PyRound(num_episodes, num_evaluations)

\* train: max_eps_iteration = round(num_episodes * epsilon_end_time), with the
\* default epsilon_end_time of 1
MaxEpsIteration(num_episodes) == PyRound(num_episodes, 1)

\* __update_weights: the sample_size passed to ReplayBuffer.sample
BatchSize(occupancy) ==
    R(PyRound(occupancy * BatchRatio.n, BatchRatio.d))

\* The networks are not modelled: their parameters are a version number that
\* every optimiser step advances, the loss of an optimisation step and the
\* hypervolume of an evaluation are values that identify the step and the
\* evaluation they come from.
LossOf(policy_version) == Rat(1, policy_version + 2)

HvOf(ep, policy_version) == R(10 * ep + policy_version + 1)

NaNRow == [episode |-> NaN, loss |-> NaN, hypervolume |-> NaN]

\* The least episode of the loss logger: df["episode"].min()
MinEpisode(loss_log) ==
    CHOOSE m \in {loss_log[k].episode : k \in 1..Len(loss_log)} :
        \A k \in 1..Len(loss_log) : m <= loss_log[k].episode

\* train, after the loop: the table it returns, or the error it raises.  An
\* empty logger gives a frame without an "episode" column (KeyError); the
\* hypervolumes are assigned to the rows whose index is an evaluated episode,
\* in order, and their number must be the number of such rows (ValueError).
BuildTable(loss_log, hv_log, num_evaluations) ==
    IF Len(loss_log) = 0 THEN [ok |-> FALSE, df |-> <<>>]
    ELSE LET leading_nans == [k \in 1..MinEpisode(loss_log) |-> NaNRow]
             body == [k \in 1..Len(loss_log) |->
                         [episode |-> R(loss_log[k].episode), loss |-> loss_log[k].loss,
                          hypervolume |-> NaN]]
             rows == leading_nans \o body
             hit == {i \in 0..(Len(rows) - 1) :
                        \E k \in 1..Len(hv_log) : hv_log[k].episode = i}
             rank(i) == Cardinality({j \in hit : j <= i})
         IN  IF num_evaluations = 0
             THEN [ok |-> TRUE, df |-> [columns |-> <<"episode", "loss">>, rows |-> rows]]
             ELSE IF Len(hv_log) = 0 \/ Cardinality(hit) # Len(hv_log)
             THEN [ok |-> FALSE, df |-> <<>>]
             ELSE [ok |-> TRUE,
                   df |-> [columns |-> <<"episode", "loss", "hypervolume">>,
                           rows |-> [k \in 1..Len(rows) |->
                                        IF (k - 1) \in hit
                                        THEN [rows[k] EXCEPT !.hypervolume =
                                                 hv_log[rank(k - 1)].hypervolume]
                                        ELSE rows[k]]]]

-----------------------------------------------------------------------------
(* MOHighwayEnv (src/envs/mo_highway_env.py).                              *)

RSub(x, y) == IF IsNaN(x) \/ IsNaN(y) THEN NaN ELSE Rat(x.n * y.d - y.n * x.d, x.d * y.d)

RDiv(x, y) == IF IsNaN(x) \/ IsNaN(y) \/ y.n = 0 THEN NaN ELSE Rat(x.n * y.d, x.d * y.n)

RLeq(x, y) == ~IsNaN(x) /\ ~IsNaN(y) /\ x.n * y.d <= y.n * x.d

\* highway_env.utils.lmap: v mapped linearly from [x0, x1] to [y0, y1].  A
\* range of width 0 gives no number.
lmap(v, x0, x1, y0, y1) ==
    RAdd(y0, RDiv(RMul(RSub(v, x0), RSub(y1, y0)), RSub(x1, x0)))

\* np.clip(v, 0, 1)
Clip01(v) == IF RLeq(v, R(0)) THEN R(0) ELSE IF RLeq(R(1), v) THEN R(1) ELSE v

\* MOHighwayEnv._rewards: the four reward terms of a vehicle state.
\* state.scaled_speed is the forward speed mapped from reward_speed_range
\* to [0, 1], state.efficiency the result of compute_efficiency.
_rewards(state) ==
    [collision_reward |-> BoolToNum(state.crashed),
     right_lane_reward |-> Rat(state.lane, Max2(state.lanes - 1, 1)),
     high_speed_reward |-> Clip01(state.scaled_speed),
     energy_consumption_reward |-> state.efficiency]

\* MOHighwayEnv._reward from the terms of _rewards: the terms weighted by
\* their coefficients, summed per objective, normalised, and overridden
\* when the weighted collision term is not 0.
RewardOfTerms(config, terms) ==
    LET collision == RMul(config.collision_reward, terms.collision_reward)
        right_lane == RMul(config.right_lane_reward, terms.right_lane_reward)
        high_speed == RMul(config.high_speed_reward, terms.high_speed_reward)
        energy == RMul(config.energy_consumption_reward, terms.energy_consumption_reward)
        speed_reward == RAdd(RAdd(high_speed, right_lane), collision)
        energy_reward == RAdd(RAdd(energy, right_lane), collision)
        speed_norm == lmap(speed_reward, config.collision_reward,
                           RAdd(config.high_speed_reward, config.right_lane_reward),
                           R(0), R(1))
        energy_norm == lmap(energy_reward, config.collision_reward,
                            RAdd(config.energy_consumption_reward, config.right_lane_reward),
                            R(0), R(1))
    IN  IF collision # R(0) THEN <<R(0), R(0)>>
        ELSE IF config.normalize_reward THEN <<speed_norm, energy_norm>>
        ELSE <<speed_reward, energy_reward>>

_reward(config, state) == RewardOfTerms(config, _rewards(state))

-----------------------------------------------------------------------------
(* ChebyshevScalarisation and LinearScalarisation (src/utils.py).  A       *)
(* Q-value matrix is a sequence of rows, one per objective, each a         *)
(* sequence with one entry per action.                                     *)

RAbs(x) == IF IsNaN(x) THEN NaN ELSE Rat(Abs(x.n), x.d)

RMax(x, y) == IF RLess(x, y) THEN y ELSE x

\* Maximum of a non-empty sequence of numbers
RECURSIVE MaxOfSeq(_)
MaxOfSeq(xs) == IF Len(xs) = 1 THEN xs[1] ELSE RMax(xs[1], MaxOfSeq(Tail(xs)))

\* torch.swapaxes(m, 0, 1)
SwapAxes(m) == [a \in 1..Len(m[1]) |-> [o \in 1..Len(m) |-> m[o][a]]]

\* Variant: the estimate is replaced by the maximum of the incoming rows.
UpdateUtopianForget(z_star, update_vector) ==
    [o \in 1..Len(z_star) |->
        MaxOfSeq([i \in 1..Len(update_vector) |-> update_vector[i][o]])]

\* ChebyshevScalarisation.update_utopian: the new z_star, the maximum over
\* dimension 0 of the rows of update_vector stacked on z_star.
update_utopian(z_star, update_vector) ==
    LET comparison_tensor == Append(update_vector, z_star)
    IN  [o \in 1..Len(z_star) |->
            MaxOfSeq([i \in 1..Len(comparison_tensor) |-> comparison_tensor[i][o]])]

\* The utilities of the rows (one per action) against a utopian point
ChebyshevUtilities(rows, z_star, threshold, objective_weights) ==
    LET z_final == [o \in 1..Len(z_star) |-> RAdd(z_star[o], threshold)]
        abs_diffs == [a \in 1..Len(rows) |->
                         [o \in 1..Len(z_final) |-> RAbs(RSub(rows[a][o], z_final[o]))]]
        weighted_diffs == [a \in 1..Len(rows) |->
                              [o \in 1..Len(z_final) |->
                                  RMul(objective_weights[o], abs_diffs[a][o])]]
    IN  [a \in 1..Len(rows) |-> MaxOfSeq(weighted_diffs[a])]

\* Variant: the utilities are computed against the utopian point of before
\* the call.
ScalariseBeforeUpdate(z_star, threshold, action_q_estimates, objective_weights) ==
    LET rows == SwapAxes(action_q_estimates)
    IN  [z_star |-> update_utopian(z_star, rows),
         sq_values |-> ChebyshevUtilities(rows, z_star, threshold, objective_weights)]

\* ChebyshevScalarisation.scalarise_actions: the new z_star and the
\* returned utilities.
ChebyshevScalarise(z_star, threshold, action_q_estimates, objective_weights) ==
    LET rows == SwapAxes(action_q_estimates)
        updated == update_utopian(z_star, rows)
    IN  [z_star |-> updated,
         sq_values |-> ChebyshevUtilities(rows, updated, threshold, objective_weights)]

\* Sum of a non-empty sequence of numbers, as torch.sum
RECURSIVE RSumSeq(_)
RSumSeq(xs) == IF Len(xs) = 1 THEN xs[1] ELSE RAdd(xs[1], RSumSeq(Tail(xs)))

\* Variant: the weighted values are summed over dimension 1.
ScalariseActionsSumDim1(action_q_estimates, objective_weights) ==
    LET utility_values ==
            [o \in 1..Len(action_q_estimates) |->
                [a \in 1..Len(action_q_estimates[o]) |->
                    RMul(action_q_estimates[o][a], objective_weights[o])]]
    IN  [o \in 1..Len(utility_values) |-> RSumSeq(utility_values[o])]

\* LinearScalarisation.scalarise_actions: the weights reshaped to a column
\* multiply the rows, and the products are summed over dimension 0.
scalarise_actions(action_q_estimates, objective_weights) ==
    LET utility_values ==
            [o \in 1..Len(action_q_estimates) |->
                [a \in 1..Len(action_q_estimates[o]) |->
                    RMul(action_q_estimates[o][a], objective_weights[o])]]
    IN  [a \in 1..Len(utility_values[1]) |->
            RSumSeq([o \in 1..Len(utility_values) |-> utility_values[o][a]])]

-----------------------------------------------------------------------------
(* MOMA_DQN.act.  The policy network is a table from observations to its   *)
(* flat output of num_objectives * num_actions values.                     *)

\* q_values.reshape(num_objectives, num_actions)
Reshape(flat, rows, cols) ==
    [o \in 1..rows |-> [a \in 1..cols |-> flat[(o - 1) * cols + a]]]

\* torch.argmax(values).item(): the 0-based index of the first maximal value
ArgMax(values) ==
    (CHOOSE a \in DOMAIN values :
        /\ \A b \in DOMAIN values : ~RLess(values[a], values[b])
        /\ \A b \in 1..(a - 1) : RLess(values[b], values[a])) - 1

\* The action of one observation: r is the draw of rng.random(), choice the
\* result of rng.choice(num_actions) when it is called
SingleAction(net_output, eps_greedy, eps, objective_weights, r, choice) ==
    IF ~eps_greedy \/ RLess(eps, r)
    THEN ArgMax(scalarise_actions(Reshape(net_output, DefaultObjectives, NumActions),
                                  objective_weights))
    ELSE choice

\* Variant: the greedy action is also taken when the draw is below epsilon.
ActGreedyBelowEpsilon(net_outputs, eps_greedy, eps, objective_weights, draws, choices) ==
    [i \in 1..Len(net_outputs) |->
        SingleAction(net_outputs[i], eps_greedy /\ ~RLess(draws[i], eps), eps,
                     objective_weights, draws[i], choices[i])]

\* MOMA_DQN.act: the tuple of actions, one per observation, in order.
act(net_outputs, eps_greedy, eps, objective_weights, draws, choices) ==
    [i \in 1..Len(net_outputs) |->
        SingleAction(net_outputs[i], eps_greedy, eps, objective_weights,
                     draws[i], choices[i])]

-----------------------------------------------------------------------------
(* MOMA_DQN.__init__.  An environment argument is None or an environment   *)
(* with a number of controlled vehicles; the result is the exception       *)
(* raised ("" for none) and the attributes set by then.                    *)

NoEnv == [is_none |-> TRUE, controlled_vehicles |-> 0]

\* len(objective_names) after the default for None is filled in
NumObjectiveNames(args) ==
    IF args.objective_names_none THEN args.num_objectives ELSE args.objective_names_len

__init__(args) ==
    IF NumObjectiveNames(args) # args.num_objectives
    THEN [raised |-> "AssertionError", line |-> 39, attributes |-> {}]
    ELSE IF ~args.observation_space_known
    THEN [raised |-> "AssertionError", line |-> 40, attributes |-> {}]
    ELSE IF args.env.is_none
    THEN [raised |-> "AttributeError", line |-> 45,
          attributes |-> {"objective_names", "reward_structure", "env"}]
    ELSE IF args.seed_none
    THEN [raised |-> "TypeError", line |-> 48,
          attributes |-> {"objective_names", "reward_structure", "env",
                          "num_controlled_vehicles", "use_double_q_learning", "rng"}]
    ELSE [raised |-> "", line |-> 90,
          attributes |-> {"objective_names", "reward_structure", "env",
                          "num_controlled_vehicles", "use_double_q_learning", "rng",
                          "device", "num_objectives", "objective_weights", "num_actions",
                          "observation_space_length", "policy_net", "target_net",
                          "replay_enabled", "rb_size", "batch_ratio", "loss_criterion",
                          "buffer", "reward_logger", "scalarisation_method"}]

-----------------------------------------------------------------------------
(* MOMA_DQN.evaluate.  The weights of the controlled vehicles of an        *)
(* environment are a sequence with one weight vector per vehicle.          *)

\* Variant: only the first controlled vehicle is given the weights.
AssignWeightsToFirst(vehicles, weight_vector) ==
    [i \in 1..Len(vehicles) |-> IF i = 1 THEN weight_vector ELSE vehicles[i]]

\* for v in controlled_vehicles: v.objective_weights = self.objective_weights
AssignWeights(vehicles, weight_vector) ==
    [i \in 1..Len(vehicles) |-> weight_vector]

\* The weights _create_vehicles draws for the i-th controlled vehicle at a
\* reset: a vector of its own for each vehicle
EnvRandomWeights(i) == <<Rat(i, i + 2), Rat(2, i + 2)>>

\* The controlled vehicles of an environment after reset
ResetVehicles(n) == [i \in 1..n |-> EnvRandomWeights(i)]

\* get_reference_directions("energy", 2, n_points): n_points weight vectors
ReferenceDirections(n_points) ==
    [k \in 1..n_points |->
        <<Rat(k - 1, Max2(n_points - 1, 1)), RSub(R(1), Rat(k - 1, Max2(n_points - 1, 1)))>>]

\* An environment is the number of steps made on it.  Variant: eval_env is
\* the training environment itself.
SharedReference(env_steps) == [shared |-> TRUE, steps |-> env_steps]

\* self.eval_env = deepcopy(self.env): an object of its own
deepcopy(env_steps) == [shared |-> FALSE, steps |-> env_steps]

\* Element-wise sum of two vectors
VecAdd(x, y) == [o \in 1..Len(x) |-> RAdd(x[o], y[o])]

\* Variant: the accumulator keeps the rewards of the last step only.
OverwriteRewards(accumulated_reward, reward) ==
    [i \in 1..Len(accumulated_reward) |-> reward[i][1]]

\* accumulated_reward[vehicle_id] += self.reward[vehicle_id][0], for every
\* controlled vehicle
AccumulateRewards(accumulated_reward, reward) ==
    [i \in 1..Len(accumulated_reward) |-> VecAdd(accumulated_reward[i], reward[i][1])]

\* The records eval_logger receives at the end of an episode, one per
\* controlled vehicle
SummaryRecords(repetition_nr, tuple_index, weight_tuple, num_iterations, accumulated) ==
    LET normalised_reward ==
            [i \in 1..Len(accumulated) |->
                [o \in 1..Len(accumulated[i]) |->
                    RDivInt(accumulated[i][o], num_iterations)]]
    IN  [i \in 1..Len(accumulated) |->
            [repetition_number |-> repetition_nr,
             weight_index |-> tuple_index,
             weight_tuple |-> weight_tuple,
             num_iterations |-> num_iterations,
             vehicle_id |-> i - 1,
             normalised |-> normalised_reward[i],
             raw |-> accumulated[i]]]

-----------------------------------------------------------------------------
(* Values of the variables a specification does not use.                   *)

BufIdle ==
    /\ rb = [size |-> 0]
    /\ buffer = <<>>
    /\ running_index = 0
    /\ num_elements = 0
    /\ pushes = [calls |-> 0, rows |-> 0]
    /\ last = [op |-> "init", ok |-> TRUE, a |-> <<>>, ret |-> <<>>]

EpsIdle ==
    /\ epsilon = DZero
    /\ eps_args = <<>>
    /\ eps_calls = 0

TrainIdle ==
    /\ hp = <<>>
    /\ pc = "idle"
    /\ raised = ""
    /\ episode_nr = 0
    /\ counts = [steps_in_episode |-> 0, total_steps |-> 0, sample_calls |-> 0]
    /\ num_of_conducted_optimisation_steps = 0
    /\ policy_net = 0
    /\ target_net = 0
    /\ loss_logger = <<>>
    /\ hv_logger = <<>>
    /\ occ_log = <<>>
    /\ df = <<>>
    /\ orch = <<>>

RewardIdle == reward_call = [op |-> "idle"]

\* The variables of the remaining specifications, but those named in used
AuxIdleBut(used) ==
    /\ "env_call" \notin used => env_call = [op |-> "idle"]
    /\ "cheb" \notin used => cheb = [op |-> "idle"]
    /\ "lin_call" \notin used => lin_call = [op |-> "idle"]
    /\ "act_call" \notin used => act_call = [op |-> "idle"]
    /\ "ctor_call" \notin used => ctor_call = [op |-> "idle"]
    /\ "ev" \notin used => ev = [op |-> "idle"]

-----------------------------------------------------------------------------
(* The buffer on its own: construction, then any sequence of push and      *)
(* sample calls with synthetic transitions.                                *)

\* The calls made on the buffer: pushes, then one sample.  sample only reads
\* the buffer, so pushes made after it reach no buffer state that the pushes
\* before it do not reach.  A call that raises ends the sequence.

\* Value bases of the synthetic transitions: small integers, and integers
\* past 2^24 that single precision cannot tell apart.
BigBase == Pow2(24)

\* importance_sampling_id values (episode indices)
Ids == {5, 10}

\* sample_size arguments
SampleSizes == {Rat(-3, 2), Rat(1, 2), Rat(5, 2)}

\* The k-th synthetic transition: every column holds a value of its own.
ObsOf(cfg, base, k) == [j \in 1..cfg.observation_space_size |-> R(base + 100 * k + j)]

NextObsOf(cfg, base, k) ==
    [j \in 1..cfg.observation_space_size |-> R(base + 100 * k + 10 + j)]

RewardOf(cfg, base, k) == [o \in 1..cfg.num_objectives |-> R(base + 100 * k + 20 + o)]

ActionOf(k) == k % NumActions

NoId == [given |-> FALSE, val |-> R(0)]

SomeId(i) == [given |-> TRUE, val |-> R(i)]

\* Arguments of a single-sample call: tensors
SingleArgs(cfg, base, k, term, id) ==
    [obs |-> ObsOf(cfg, base, k), action |-> ActionOf(k),
     next_obs |-> NextObsOf(cfg, base, k), reward |-> RewardOf(cfg, base, k),
     terminated |-> term, id |-> id, num_samples |-> 1, batched |-> FALSE]

\* Arguments of a multi-agent call: one list item per sample
MultiArgs(cfg, base, k, term, id, n) ==
    [obs |-> [i \in 1..n |-> ObsOf(cfg, base, k + i - 1)],
     action |-> [i \in 1..n |-> ActionOf(k + i - 1)],
     next_obs |-> [i \in 1..n |-> NextObsOf(cfg, base, k + i - 1)],
     reward |-> [i \in 1..n |-> RewardOf(cfg, base, k + i - 1)],
     terminated |-> [i \in 1..n |-> term],
     id |-> id, num_samples |-> n, batched |-> TRUE]

\* The single-sample calls tried: every flag and id on small values, the id
\* of episode 0, one transition of large values, one call without an id.
SingleInputs ==
    {[base |-> 0, term |-> t, id |-> SomeId(i)] : t \in BOOLEAN, i \in Ids}
    \cup {[base |-> 0, term |-> FALSE, id |-> SomeId(0)],
          [base |-> BigBase, term |-> FALSE, id |-> SomeId(0)],
          [base |-> 0, term |-> FALSE, id |-> NoId]}

\* Rows pushed into one buffer: enough to overwrite every slot once.
MaxRows(cfg) == 2 * cfg.size

BufState == [buffer |-> buffer, running_index |-> running_index,
             num_elements |-> num_elements]

BufInitWith(cfg) ==
    /\ rb = cfg
    /\ buffer = ReplayBufferInit(cfg).buffer
    /\ running_index = ReplayBufferInit(cfg).running_index
    /\ num_elements = ReplayBufferInit(cfg).num_elements
    /\ pushes = [calls |-> 0, rows |-> 0]
    /\ last = [op |-> "init", ok |-> TRUE, a |-> <<>>, ret |-> <<>>]

\* Buffers of every capacity and flag setting, with the orchestrator's
\* default of two objectives.
BufInit ==
    /\ \E size \in 1..MaxCap, imp \in BOOLEAN, prio \in BOOLEAN :
          BufInitWith(ReplayBufferCfg(size, 1, DefaultObjectives, imp, prio))
    /\ EpsIdle /\ TrainIdle /\ RewardIdle /\ AuxIdleBut({})

\* Buffers of every observation length and objective count, with and
\* without importance sampling.
LayoutInit ==
    /\ \E L \in 1..MaxDim, O \in 1..MaxDim, imp \in BOOLEAN :
          BufInitWith(ReplayBufferCfg(2, L, O, imp, FALSE))
    /\ EpsIdle /\ TrainIdle /\ RewardIdle /\ AuxIdleBut({})

\* One call of push with arguments a.
DoPush(a) ==
    LET r == push(rb, BufState, a)
    IN  /\ buffer' = r.st.buffer
        /\ running_index' = r.st.running_index
        /\ num_elements' = r.st.num_elements
        /\ pushes' = IF r.ok
                     THEN [calls |-> pushes.calls + 1, rows |-> pushes.rows + a.num_samples]
                     ELSE pushes
        /\ last' = [op |-> "push", ok |-> r.ok, a |-> a, ret |-> <<>>]
        /\ UNCHANGED <<rb, epsVars, trainVars, reward_call, auxVars>>

PushSingle ==
    /\ last.op # "sample" /\ last.ok
    /\ pushes.rows < MaxRows(rb)
    /\ \E in \in SingleInputs :
          DoPush(SingleArgs(rb, in.base, pushes.rows + 1, in.term, in.id))

PushMulti ==
    /\ last.op # "sample" /\ last.ok
    /\ \E n \in 0..MaxVehicles :
          /\ pushes.rows + n <= MaxRows(rb)
          /\ DoPush(MultiArgs(rb, 0, pushes.rows + 1, TRUE, SomeId(5), n))

\* What sample computes and returns when rng.choice draws sample_indices
SampleReturn(sample_size, sample_indices) ==
    [weights |-> SampleWeights(rb, BufState),
     probs |-> SampleProbs(rb, BufState),
     indices |-> sample_indices,
     rows |-> [b \in 1..SampleCount(sample_size) |-> buffer[sample_indices[b] + 1]]]

Sample ==
    /\ last.op # "sample" /\ last.ok
    /\ \E sample_size \in SampleSizes :
          IF num_elements = 0
          THEN last' = [op |-> "sample", ok |-> FALSE, a |-> sample_size, ret |-> <<>>]
          ELSE \E sample_indices \in [1..SampleCount(sample_size) -> 0..(num_elements - 1)] :
                  last' = [op |-> "sample", ok |-> TRUE, a |-> sample_size,
                           ret |-> SampleReturn(sample_size, sample_indices)]
    /\ UNCHANGED <<rb, buffer, running_index, num_elements, pushes>>
    /\ UNCHANGED <<epsVars, trainVars, reward_call, auxVars>>

BufNext == PushSingle \/ PushMulti \/ Sample

SpecBuffer == BufInit /\ [][BufNext]_vars

SpecLayout == LayoutInit /\ [][BufNext]_vars

-----------------------------------------------------------------------------
(* Epsilon decay on its own: epsilon = eps_start, then repeated calls of   *)
(* reduce_epsilon with the same arguments.                                 *)

\* eps_start and eps_end values, eps_end <= eps_start
EpsStarts == {Double_0_9, Double_0_5}

EpsEnds == {DZero, Double_0_1}

\* Calls made past max_iteration
ExtraCalls == 2

EpsInit ==
    /\ \E max_iteration \in 1..MaxIter, eps_start \in EpsStarts, eps_end \in EpsEnds :
          /\ eps_args = [max_iteration |-> max_iteration, eps_start |-> eps_start,
                         eps_end |-> eps_end]
          /\ epsilon = eps_start
    /\ eps_calls = 0
    /\ BufIdle /\ TrainIdle /\ RewardIdle /\ AuxIdleBut({})

ReduceEpsilon ==
    /\ eps_calls < eps_args.max_iteration + ExtraCalls
    /\ epsilon' = reduce_epsilon(epsilon, eps_args.max_iteration,
                                 eps_args.eps_start, eps_args.eps_end).epsilon
    /\ eps_calls' = eps_calls + 1
    /\ UNCHANGED <<eps_args, bufVars, trainVars, reward_call, auxVars>>

EpsNext == ReduceEpsilon

SpecEps == EpsInit /\ [][EpsNext]_vars

-----------------------------------------------------------------------------
(* compute_reward_summary on its own: one call on synthetic rewards.        *)

RewardStructures == {"mean_reward", "ego_reward", "max_reward"}

\* Raw reward matrices of vehicle i (two objectives): two rows, two rows
\* followed by a not-a-number row, three rows.
RewardKinds == {"two", "nan_tail", "three"}

RewardMatrix(kind, i) ==
    CASE kind = "two" ->
             <<<<R(10 * i + 1), R(10 * i + 2)>>, <<R(10 * i + 3), R(10 * i + 4)>>>>
      [] kind = "nan_tail" ->
             <<<<R(-(10 * i + 1)), R(0)>>, <<R(10 * i + 3), R(10 * i + 4)>>, <<NaN, NaN>>>>
      [] kind = "three" ->
             <<<<R(10 * i + 1), R(10 * i + 2)>>, <<R(10 * i + 3), R(10 * i + 4)>>,
               <<R(10 * i + 5), R(10 * i + 6)>>>>

\* Weight lists of a vehicle: one, two (the second of an uncontrolled
\* vehicle, all zero) or three weight vectors.
WeightKinds == {"one", "two", "three"}

WeightList(kind) ==
    CASE kind = "one" -> <<<<Rat(1, 4), Rat(3, 4)>>>>
      [] kind = "two" -> <<<<Rat(1, 4), Rat(3, 4)>>, <<R(0), R(0)>>>>
      [] kind = "three" -> <<<<R(1), R(0)>>, <<Rat(1, 2), Rat(1, 2)>>, <<R(0), R(1)>>>>

RewardInit ==
    /\ \E n \in 1..MaxVehicles, structure \in RewardStructures :
          \E rk \in [1..n -> RewardKinds], wk \in [1..n -> WeightKinds],
             crashed \in [1..n -> BOOLEAN] :
             reward_call =
                 [op |-> "args",
                  cfg |-> [num_controlled_vehicles |-> n,
                           num_objectives |-> DefaultObjectives,
                           reward_structure |-> structure],
                  rewards |-> [i \in 1..n |-> RewardMatrix(rk[i], i)],
                  obj_weights |-> [i \in 1..n |-> WeightList(wk[i])],
                  crashed |-> crashed,
                  ok |-> TRUE, out |-> <<>>]
    /\ BufIdle /\ EpsIdle /\ TrainIdle /\ AuxIdleBut({})

ComputeRewardSummary ==
    /\ reward_call.op = "args"
    /\ LET r == compute_reward_summary(reward_call.cfg, reward_call.rewards,
                                       reward_call.obj_weights, reward_call.crashed)
       IN  reward_call' = [reward_call EXCEPT !.op = "compute_reward_summary",
                                              !.ok = r.ok, !.out = r.val]
    /\ UNCHANGED <<bufVars, epsVars, trainVars, auxVars>>

RewardNext == ComputeRewardSummary

SpecReward == RewardInit /\ [][RewardNext]_vars

-----------------------------------------------------------------------------
(* MOHighwayEnv._reward on its own: one call on a configuration and a      *)
(* vehicle state.                                                          *)

\* Reward coefficients: the defaults (-1, 0.2, 1, 1) and neighbours of them
CollisionCoefficients == {R(-1), R(0)}

RightLaneCoefficients == {R(0), Rat(1, 5)}

HighSpeedCoefficients == {R(1), Rat(1, 2)}

EnergyCoefficients == {R(1)}

\* Lane counts of the road segment
LaneCounts == {1, 3}

\* Forward speeds below, inside and above reward_speed_range, scaled
ScaledSpeeds == {Rat(-1, 2), Rat(1, 2), Rat(3, 2)}

Efficiencies == {R(0), Rat(1, 2), R(1)}

EnvRewardInit ==
    /\ \E c_col \in CollisionCoefficients, c_rl \in RightLaneCoefficients,
          c_hs \in HighSpeedCoefficients, c_e \in EnergyCoefficients,
          normalize \in BOOLEAN, lanes \in LaneCounts, crashed \in BOOLEAN,
          scaled_speed \in ScaledSpeeds, efficiency \in Efficiencies :
          \E lane \in 0..(lanes - 1) :
             env_call = [op |-> "args",
                         config |-> [collision_reward |-> c_col,
                                     right_lane_reward |-> c_rl,
                                     high_speed_reward |-> c_hs,
                                     energy_consumption_reward |-> c_e,
                                     normalize_reward |-> normalize],
                         state |-> [crashed |-> crashed, lane |-> lane, lanes |-> lanes,
                                    scaled_speed |-> scaled_speed,
                                    efficiency |-> efficiency],
                         out |-> <<>>]
    /\ BufIdle /\ EpsIdle /\ TrainIdle /\ RewardIdle /\ AuxIdleBut({"env_call"})

EnvReward ==
    /\ env_call.op = "args"
    /\ env_call' = [env_call EXCEPT !.op = "_reward",
                                    !.out = _reward(env_call.config, env_call.state)]
    /\ UNCHANGED <<bufVars, epsVars, trainVars, reward_call, cheb, lin_call, act_call,
                   ctor_call, ev>>

EnvRewardNext == EnvReward

SpecEnvReward == EnvRewardInit /\ [][EnvRewardNext]_vars

-----------------------------------------------------------------------------
(* A ChebyshevScalarisation object under any sequence of                   *)
(* scalarise_actions calls.  cheb.seen[o] collects every Q-value passed in *)
(* for objective o, cheb.z_before is z_star as the last call found it.     *)

\* Q-values of the first and of the second objective
QValues == <<{R(0), R(1), R(2)}, {R(0), R(2)}>>

\* Q-value matrices of two objectives and two actions
QMatrices ==
    {<<<<a, b>>, <<c, d>>>> :
        a \in QValues[1], b \in QValues[1], c \in QValues[2], d \in QValues[2]}

ScalarisationWeights == {<<Rat(1, 4), Rat(3, 4)>>, <<R(1), R(0)>>}

InitialUtopians == {<<R(0), R(0)>>, <<R(1), R(3)>>}

Thresholds == {R(0), Rat(1, 10)}

ChebInit ==
    /\ \E initial_utopian \in InitialUtopians, threshold_value \in Thresholds :
          cheb = [op |-> "__init__", z_star |-> initial_utopian,
                  threshold |-> threshold_value, initial |-> initial_utopian,
                  z_before |-> initial_utopian,
                  seen |-> [o \in 1..Len(initial_utopian) |-> {}],
                  q |-> <<>>, weights |-> <<>>, out |-> <<>>]
    /\ BufIdle /\ EpsIdle /\ TrainIdle /\ RewardIdle /\ AuxIdleBut({"cheb"})

ScalariseActions ==
    /\ cheb.op \in {"__init__", "scalarise_actions"}
    /\ \E action_q_estimates \in QMatrices, objective_weights \in ScalarisationWeights :
          LET res == ChebyshevScalarise(cheb.z_star, cheb.threshold,
                                        action_q_estimates, objective_weights)
          IN  cheb' = [cheb EXCEPT
                          !.op = "scalarise_actions",
                          !.z_star = res.z_star,
                          !.z_before = cheb.z_star,
                          !.seen = [o \in DOMAIN cheb.seen |->
                                       cheb.seen[o] \cup
                                       {action_q_estimates[o][a] :
                                           a \in 1..Len(action_q_estimates[o])}],
                          !.q = action_q_estimates,
                          !.weights = objective_weights,
                          !.out = res.sq_values]
    /\ UNCHANGED <<bufVars, epsVars, trainVars, reward_call, env_call, lin_call, act_call,
                   ctor_call, ev>>

ChebNext == ScalariseActions

SpecCheb == ChebInit /\ [][ChebNext]_vars

-----------------------------------------------------------------------------
(* A LinearScalarisation object under any sequence of scalarise_actions    *)
(* calls.  lin_call.previous is the call before the last one.  The inputs  *)
(* are dyadic, so that float32 products and sums are exact.                *)

\* Rows of three action values
LinearRows == {<<R(0), R(1), R(2)>>, <<R(2), Rat(-1, 2), R(0)>>, <<R(1), R(1), R(1)>>}

LinearMatrices == {<<r1, r2>> : r1 \in LinearRows, r2 \in LinearRows}

LinearWeights == {<<Rat(1, 4), Rat(3, 4)>>, <<Rat(1, 2), Rat(1, 2)>>, <<R(1), R(0)>>}

NoCall == [q |-> <<>>, weights |-> <<>>, out |-> <<>>]

LinearInit ==
    /\ lin_call = [op |-> "__init__", q |-> <<>>, weights |-> <<>>, out |-> <<>>,
                   previous |-> NoCall]
    /\ BufIdle /\ EpsIdle /\ TrainIdle /\ RewardIdle /\ AuxIdleBut({"lin_call"})

ScalariseLinear ==
    /\ lin_call.op \in {"__init__", "scalarise_actions"}
    /\ \E action_q_estimates \in LinearMatrices, objective_weights \in LinearWeights :
          lin_call' = [op |-> "scalarise_actions",
                       q |-> action_q_estimates,
                       weights |-> objective_weights,
                       out |-> scalarise_actions(action_q_estimates, objective_weights),
                       previous |-> [q |-> lin_call.q, weights |-> lin_call.weights,
                                     out |-> lin_call.out]]
    /\ UNCHANGED <<bufVars, epsVars, trainVars, reward_call, env_call, cheb, act_call,
                   ctor_call, ev>>

LinearNext == ScalariseLinear

SpecLinear == LinearInit /\ [][LinearNext]_vars

-----------------------------------------------------------------------------
(* MOMA_DQN.act on its own: one call on a tuple of observations.           *)

Observations == {"a", "b", "c"}

\* The policy network's output for an observation
PolicyOutput(single_obs) ==
    CASE single_obs = "a" -> <<R(1), R(0), R(0), R(0), R(0), R(0), R(0), R(0), R(0), R(2)>>
      [] single_obs = "b" -> <<R(0), R(3), R(0), R(0), R(0), R(0), R(0), R(1), R(0), R(0)>>
      [] single_obs = "c" -> <<R(0), R(0), R(0), R(2), R(0), R(0), R(0), R(0), R(2), R(0)>>

ObservationTuples ==
    {<<>>} \cup {<<x>> : x \in Observations}
           \cup {<<x, y>> : x \in Observations, y \in Observations}

\* Values of epsilon and of rng.random()
ActEpsilons == {R(0), Rat(1, 2), R(1)}

ActDraws == {R(0), Rat(1, 2), Rat(3, 4)}

\* rng.choice was not called
NoChoice == -1

ActInit ==
    /\ \E obs \in ObservationTuples, eps_greedy \in BOOLEAN, eps \in ActEpsilons,
          objective_weights \in ScalarisationWeights :
          act_call = [op |-> "args", obs |-> obs, eps_greedy |-> eps_greedy,
                      epsilon |-> eps, objective_weights |-> objective_weights,
                      draws |-> <<>>, choices |-> <<>>, out |-> <<>>]
    /\ BufIdle /\ EpsIdle /\ TrainIdle /\ RewardIdle /\ AuxIdleBut({"act_call"})

Act ==
    /\ act_call.op = "args"
    /\ \E draws \in [DOMAIN act_call.obs -> ActDraws],
          choices \in [DOMAIN act_call.obs -> 0..(NumActions - 1) \cup {NoChoice}] :
          /\ \A i \in DOMAIN act_call.obs :
                choices[i] = NoChoice <=>
                    (~act_call.eps_greedy \/ RLess(act_call.epsilon, draws[i]))
          /\ act_call' = [act_call EXCEPT
                              !.op = "act",
                              !.draws = draws,
                              !.choices = choices,
                              !.out = act([i \in DOMAIN act_call.obs |->
                                              PolicyOutput(act_call.obs[i])],
                                          act_call.eps_greedy, act_call.epsilon,
                                          act_call.objective_weights, draws, choices)]
    /\ UNCHANGED <<bufVars, epsVars, trainVars, reward_call, env_call, cheb, lin_call,
                   ctor_call, ev>>

ActNext == Act

SpecAct == ActInit /\ [][ActNext]_vars

-----------------------------------------------------------------------------
(* Construction of a MOMA_DQN object.                                      *)

Environments ==
    {NoEnv} \cup {[is_none |-> FALSE, controlled_vehicles |-> n] : n \in 1..MaxVehicles}

ObjectiveCounts == {2, 3}

ConstructorArgs ==
    [env : Environments,
     seed_none : BOOLEAN,
     num_objectives : ObjectiveCounts,
     objective_names_none : BOOLEAN,
     objective_names_len : ObjectiveCounts,
     observation_space_known : BOOLEAN,
     objective_weights_none : BOOLEAN]

ConstructInit ==
    /\ \E args \in ConstructorArgs :
          ctor_call = [op |-> "args", args |-> args, raised |-> "", line |-> 0,
                       attributes |-> {}]
    /\ BufIdle /\ EpsIdle /\ TrainIdle /\ RewardIdle /\ AuxIdleBut({"ctor_call"})

Construct ==
    /\ ctor_call.op = "args"
    /\ LET res == __init__(ctor_call.args)
       IN  ctor_call' = [ctor_call EXCEPT !.op = "__init__",
                                          !.raised = res.raised,
                                          !.line = res.line,
                                          !.attributes = res.attributes]
    /\ UNCHANGED <<bufVars, epsVars, trainVars, reward_call, env_call, cheb, lin_call,
                   act_call, ev>>

ConstructNext == Construct

SpecConstruct == ConstructInit /\ [][ConstructNext]_vars

-----------------------------------------------------------------------------
(* MOMA_DQN.evaluate on its own.  ev.op is the position in evaluate,       *)
(* ev.vehicles the weights of the controlled vehicles of eval_env,         *)
(* ev.last_step what the last environment step saw; ev.steps and           *)
(* ev.episodes record the ego rewards of every step.  The environment      *)
(* ends an episode after at most MaxSteps steps.                           *)

EvalPoints == {1, 2}

EvalRepetitions == {1, 2}

\* Reward levels of an episode
EvalKinds == {0, 1}

\* self.reward of step t of an episode: per controlled vehicle the ego row
\* and the row of a neighbour
EvalReward(kind, t, n) ==
    [i \in 1..n |-> <<<<Rat(kind + t, 2), R(i)>>, <<R(7), R(7)>>>>]

\* What evaluate does not own: the replay buffer, epsilon, the counter of
\* optimisation steps, the networks, and the training environment
TrainingState ==
    [buffer |-> buffer, running_index |-> running_index, num_elements |-> num_elements,
     epsilon |-> epsilon,
     num_of_conducted_optimisation_steps |-> num_of_conducted_optimisation_steps,
     policy_net |-> policy_net, target_net |-> target_net,
     env_steps |-> counts.total_steps]

\* self.eval_env before evaluate has made it
NoEvalEnv == [shared |-> FALSE, steps |-> 0]

EvalInit ==
    /\ BufIdle /\ EpsIdle /\ TrainIdle /\ RewardIdle /\ AuxIdleBut({"ev"})
    /\ \E num_points \in EvalPoints, num_repetitions \in EvalRepetitions,
          n \in 1..MaxVehicles :
          ev = [op |-> "evaluate",
                num_points |-> num_points,
                num_repetitions |-> num_repetitions,
                num_controlled_vehicles |-> n,
                tuple_index |-> 0,
                repetition_nr |-> 0,
                curr_num_iterations |-> 0,
                accumulated_reward |-> <<>>,
                objective_weights |-> EnvRandomWeights(1),
                vehicles |-> ResetVehicles(n),
                eval_env |-> NoEvalEnv,
                before |-> TrainingState,
                kind |-> 0,
                eval_logger |-> <<>>,
                steps |-> <<>>,
                episodes |-> <<>>,
                last_step |-> [by |-> "none", act_weights |-> <<>>,
                               vehicle_weights |-> <<>>]]

EvalUnchanged ==
    UNCHANGED <<bufVars, epsVars, trainVars, reward_call, env_call, cheb, lin_call,
                act_call, ctor_call>>

\* The same, but for the steps made on the training environment
EvalUnchangedButEnv ==
    UNCHANGED <<bufVars, epsVars, hp, pc, raised, episode_nr,
                num_of_conducted_optimisation_steps, policy_net, target_net,
                loss_logger, hv_logger, occ_log, df, orch, reward_call, env_call, cheb,
                lin_call, act_call, ctor_call>>

\* evaluate up to the loops: eval_env copied, weight tuples and loggers made
EvalBegin ==
    /\ ev.op = "evaluate"
    /\ ev' = [ev EXCEPT !.op = "tuple", !.tuple_index = 0, !.eval_logger = <<>>,
                        !.eval_env = deepcopy(counts.total_steps)]
    /\ EvalUnchanged

\* The head of the loop over the weight tuples
EvalNextTuple ==
    /\ ev.op = "tuple"
    /\ ev.tuple_index < ev.num_points
    /\ ev' = [ev EXCEPT
                 !.objective_weights =
                     ReferenceDirections(ev.num_points)[ev.tuple_index + 1],
                 !.repetition_nr = 0,
                 !.op = IF ev.num_repetitions > 0 THEN "reset" ELSE "tuple",
                 !.tuple_index = IF ev.num_repetitions > 0 THEN @ ELSE @ + 1]
    /\ EvalUnchanged

\* The head of the loop over the repetitions: reset, weights, accumulators
EvalReset ==
    /\ ev.op = "reset"
    /\ \E kind \in EvalKinds :
          ev' = [ev EXCEPT
                    !.op = "step",
                    !.kind = kind,
                    !.vehicles = AssignWeights(ResetVehicles(ev.num_controlled_vehicles),
                                               ev.objective_weights),
                    !.accumulated_reward =
                        [i \in 1..ev.num_controlled_vehicles |->
                            [o \in 1..DefaultObjectives |-> R(0)]],
                    !.curr_num_iterations = 0,
                    !.steps = <<>>]
    /\ EvalUnchanged

\* One pass of the while loop: act, eval_env.step, accumulate
EvalStep ==
    /\ ev.op = "step"
    /\ \E outcome \in {"running", "ended"} :
          /\ outcome = "running" => ev.curr_num_iterations + 1 < MaxSteps
          /\ LET reward == EvalReward(ev.kind, ev.curr_num_iterations,
                                      ev.num_controlled_vehicles)
             IN  ev' = [ev EXCEPT
                           !.op = IF outcome = "running" THEN "step" ELSE "log",
                           !.eval_env = [@ EXCEPT !.steps = @ + 1],
                           !.last_step = [by |-> "evaluate",
                                          act_weights |-> ev.objective_weights,
                                          vehicle_weights |-> ev.vehicles],
                           !.accumulated_reward = AccumulateRewards(@, reward),
                           !.steps = Append(@, [i \in 1..ev.num_controlled_vehicles |->
                                                   reward[i][1]]),
                           !.curr_num_iterations = @ + 1]
    /\ counts' = IF ev.eval_env.shared
                 THEN [counts EXCEPT !.total_steps = @ + 1] ELSE counts
    /\ EvalUnchangedButEnv

\* The end of an episode: the summary records, then the next repetition or
\* the next weight tuple
EvalEpisodeEnd ==
    /\ ev.op = "log"
    /\ ev' = [ev EXCEPT
                 !.eval_logger = @ \o SummaryRecords(ev.repetition_nr, ev.tuple_index,
                                                     ev.objective_weights,
                                                     ev.curr_num_iterations,
                                                     ev.accumulated_reward),
                 !.episodes = Append(@, ev.steps),
                 !.repetition_nr = @ + 1,
                 !.op = IF ev.repetition_nr + 1 < ev.num_repetitions
                        THEN "reset" ELSE "tuple",
                 !.tuple_index = IF ev.repetition_nr + 1 < ev.num_repetitions
                                 THEN @ ELSE @ + 1]
    /\ EvalUnchanged

\* After the loops: the tables are returned
EvalReturn ==
    /\ ev.op = "tuple"
    /\ ev.tuple_index >= ev.num_points
    /\ ev' = [ev EXCEPT !.op = "returned"]
    /\ EvalUnchanged

EvalNext ==
    \/ EvalBegin
    \/ EvalNextTuple
    \/ EvalReset
    \/ EvalStep
    \/ EvalEpisodeEnd
    \/ EvalReturn

SpecEval == EvalInit /\ [][EvalNext]_vars

-----------------------------------------------------------------------------
(* MOMA_DQN.train: construction of the orchestrator, then one call of      *)
(* train.  The environment is outside the repository's sources: a step     *)
(* ends with a crash of the first controlled vehicle, with the time limit, *)
(* or with the episode still running.                                      *)

Frequencies == {1, 2}

EvaluationCounts == {0, 1, 2}

TrainCapacities == {2, 4}

StepOutcomes == {"running", "crashed", "truncated"}

\* The objective weights every controlled vehicle carries
TrainWeights == <<Rat(1, 4), Rat(3, 4)>>

\* random_objective_weights at the head of an episode
DrawnWeights(episode) == IF episode % 2 = 0 THEN TrainWeights ELSE <<Rat(3, 5), Rat(2, 5)>>

\* num_points of the evaluations train runs
TrainEvalPoints == 10

RewardCfg ==
    [num_controlled_vehicles |-> hp.num_controlled_vehicles,
     num_objectives |-> hp.num_objectives,
     reward_structure |-> hp.reward_structure]

TrainInit ==
    /\ \E num_episodes \in 0..MaxEpisodes, f \in Frequencies, t \in Frequencies,
          num_evaluations \in EvaluationCounts, n \in 1..MaxVehicles,
          rb_size \in TrainCapacities :
          /\ hp = [num_episodes |-> num_episodes,
                   inv_optimisation_frequency |-> f,
                   inv_target_update_frequency |-> t,
                   num_evaluations |-> num_evaluations,
                   num_controlled_vehicles |-> n,
                   num_objectives |-> DefaultObjectives,
                   reward_structure |-> "mean_reward"]
          /\ BufInitWith(ReplayBufferCfg(rb_size, 1, DefaultObjectives, TRUE, FALSE))
    /\ pc = "train"
    /\ raised = ""
    /\ episode_nr = 0
    /\ counts = [steps_in_episode |-> 0, total_steps |-> 0, sample_calls |-> 0]
    /\ num_of_conducted_optimisation_steps = 0
    /\ policy_net = 0
    /\ target_net = 0
    /\ loss_logger = <<>>
    /\ hv_logger = <<>>
    /\ occ_log = <<>>
    /\ df = <<>>
    /\ \E n \in 1..MaxVehicles :
          /\ n = hp.num_controlled_vehicles
          /\ orch = [objective_weights |-> TrainWeights,
                     vehicles |-> ResetVehicles(n),
                     last_step |-> [by |-> "none", act_weights |-> <<>>,
                                    vehicle_weights |-> <<>>]]
    /\ EpsIdle /\ RewardIdle /\ AuxIdleBut({})

\* train up to the loop: loggers, epsilon, counters
TrainBegin ==
    /\ pc = "train"
    /\ loss_logger' = <<>>
    /\ hv_logger' = <<>>
    /\ epsilon' = Double_0_9
    /\ eps_args' = [max_iteration |-> MaxEpsIteration(hp.num_episodes),
                    eps_start |-> Double_0_9, eps_end |-> DZero]
    /\ eps_calls' = 0
    /\ episode_nr' = 0
    /\ num_of_conducted_optimisation_steps' = 0
    /\ pc' = IF hp.num_episodes > 0 THEN "reset" ELSE "table"
    /\ UNCHANGED <<bufVars, hp, orch, raised, counts, policy_net, target_net, occ_log, df,
                   reward_call, auxVars>>

\* The head of the episode loop: flags cleared, environment reset
EpisodeReset ==
    /\ pc = "reset"
    /\ counts' = [counts EXCEPT !.steps_in_episode = 0]
    /\ orch' = [orch EXCEPT
                   !.objective_weights = DrawnWeights(episode_nr),
                   !.vehicles = AssignWeights(ResetVehicles(hp.num_controlled_vehicles),
                                              DrawnWeights(episode_nr))]
    /\ pc' = "step"
    /\ UNCHANGED <<bufVars, epsVars, hp, raised, episode_nr,
                   num_of_conducted_optimisation_steps, policy_net, target_net,
                   loss_logger, hv_logger, occ_log, df, reward_call, auxVars>>

\* One pass of the while loop: act, env.step, compute_reward_summary, push
EnvStep ==
    /\ pc = "step"
    /\ \E outcome \in StepOutcomes :
          /\ outcome = "running" => counts.steps_in_episode + 1 < MaxSteps
          /\ outcome = "truncated" => counts.steps_in_episode + 1 = MaxSteps
          /\ LET n == hp.num_controlled_vehicles
                 t == counts.total_steps
                 crashed == [i \in 1..n |-> outcome = "crashed" /\ i = 1]
                 rewards == [i \in 1..n |-> <<RewardOf(rb, 0, t * n + i)>>]
                 vehicle_obj_weights == [i \in 1..n |-> <<orch.vehicles[i]>>]
                 reward_summary ==
                     compute_reward_summary(RewardCfg, rewards, vehicle_obj_weights, crashed)
                 a == [obs |-> [i \in 1..n |-> ObsOf(rb, 0, t * n + i)],
                       action |-> [i \in 1..n |-> ActionOf(t + i)],
                       next_obs |-> [i \in 1..n |-> ObsOf(rb, 0, (t + 1) * n + i)],
                       reward |-> reward_summary.val,
                       terminated |-> crashed,
                       id |-> SomeId(episode_nr),
                       num_samples |-> n, batched |-> TRUE]
                 r == push(rb, BufState, a)
             IN  /\ counts' = [counts EXCEPT !.steps_in_episode = @ + 1,
                                             !.total_steps = @ + 1]
                 /\ orch' = [orch EXCEPT
                                !.last_step = [by |-> "train",
                                               act_weights |-> orch.objective_weights,
                                               vehicle_weights |-> orch.vehicles]]
                 /\ IF ~reward_summary.ok
                    THEN /\ pc' = "failed"
                         /\ raised' = "compute_reward_summary"
                         /\ UNCHANGED bufVars
                    ELSE /\ buffer' = r.st.buffer
                         /\ running_index' = r.st.running_index
                         /\ num_elements' = r.st.num_elements
                         /\ pushes' = IF r.ok
                                      THEN [calls |-> pushes.calls + 1,
                                            rows |-> pushes.rows + n]
                                      ELSE pushes
                         /\ last' = [op |-> "push", ok |-> r.ok, a |-> a, ret |-> <<>>]
                         /\ pc' = IF ~r.ok THEN "failed"
                                  ELSE IF outcome = "running" THEN "step" ELSE "optimise"
                         /\ raised' = IF r.ok THEN raised ELSE "push"
                         /\ UNCHANGED rb
    /\ UNCHANGED <<epsVars, hp, episode_nr, num_of_conducted_optimisation_steps,
                   policy_net, target_net, loss_logger, hv_logger, occ_log, df,
                   reward_call, auxVars>>

\* The optimisation step of an episode: __update_weights and the counter
UpdateWeights ==
    /\ pc = "optimise"
    /\ OptimisationDue(episode_nr, hp.inv_optimisation_frequency, num_elements, rb.size)
    /\ \E sample_indices \in
              [1..SampleCount(BatchSize(num_elements)) -> 0..(num_elements - 1)] :
          last' = [op |-> "sample", ok |-> TRUE, a |-> BatchSize(num_elements),
                   ret |-> SampleReturn(BatchSize(num_elements), sample_indices)]
    /\ loss_logger' = Append(loss_logger,
                             [episode |-> episode_nr, loss |-> LossOf(policy_net)])
    /\ policy_net' = policy_net + 1
    /\ target_net' = IF TargetSyncDue(num_of_conducted_optimisation_steps,
                                      hp.inv_target_update_frequency)
                     THEN policy_net + 1 ELSE target_net
    /\ num_of_conducted_optimisation_steps' = num_of_conducted_optimisation_steps + 1
    /\ counts' = [counts EXCEPT !.sample_calls = @ + 1]
    /\ occ_log' = Append(occ_log, num_elements)
    /\ pc' = "evaluate"
    /\ UNCHANGED <<rb, buffer, running_index, num_elements, pushes, epsVars, hp, orch, raised,
                   episode_nr, hv_logger, df, reward_call, auxVars>>

\* An episode without optimisation step
SkipUpdate ==
    /\ pc = "optimise"
    /\ ~OptimisationDue(episode_nr, hp.inv_optimisation_frequency, num_elements, rb.size)
    /\ occ_log' = Append(occ_log, num_elements)
    /\ pc' = "evaluate"
    /\ UNCHANGED <<bufVars, epsVars, hp, orch, raised, episode_nr, counts,
                   num_of_conducted_optimisation_steps, policy_net, target_net,
                   loss_logger, hv_logger, df, reward_call, auxVars>>

\* episode_nr % eval_interval with eval_interval = 0: ZeroDivisionError
EvaluationRaises ==
    /\ pc = "evaluate"
    /\ hp.num_evaluations # 0
    /\ EvalInterval(hp.num_episodes, hp.num_evaluations) = 0
    /\ pc' = "failed"
    /\ raised' = "eval_interval"
    /\ UNCHANGED <<bufVars, epsVars, hp, orch, episode_nr, counts,
                   num_of_conducted_optimisation_steps, policy_net, target_net,
                   loss_logger, hv_logger, occ_log, df, reward_call, auxVars>>

\* evaluate, and its hypervolume logged under the episode
RunEvaluation ==
    /\ pc = "evaluate"
    /\ hp.num_evaluations # 0
    /\ EvalInterval(hp.num_episodes, hp.num_evaluations) # 0
    /\ episode_nr % EvalInterval(hp.num_episodes, hp.num_evaluations) = 0
    /\ hv_logger' = Append(hv_logger, [episode |-> episode_nr,
                                       hypervolume |-> HvOf(episode_nr, policy_net)])
    /\ orch' = [orch EXCEPT
                   !.objective_weights =
                       ReferenceDirections(TrainEvalPoints)[TrainEvalPoints]]
    /\ pc' = "decay"
    /\ UNCHANGED <<bufVars, epsVars, hp, raised, episode_nr, counts,
                   num_of_conducted_optimisation_steps, policy_net, target_net,
                   loss_logger, occ_log, df, reward_call, auxVars>>

SkipEvaluation ==
    /\ pc = "evaluate"
    /\ \/ hp.num_evaluations = 0
       \/ /\ hp.num_evaluations # 0
          /\ EvalInterval(hp.num_episodes, hp.num_evaluations) # 0
          /\ episode_nr % EvalInterval(hp.num_episodes, hp.num_evaluations) # 0
    /\ pc' = "decay"
    /\ UNCHANGED <<bufVars, epsVars, hp, orch, raised, episode_nr, counts,
                   num_of_conducted_optimisation_steps, policy_net, target_net,
                   loss_logger, hv_logger, occ_log, df, reward_call, auxVars>>

\* The tail of the episode loop: reduce_epsilon, then the next episode
EpisodeEnd ==
    /\ pc = "decay"
    /\ LET r == reduce_epsilon(epsilon, eps_args.max_iteration,
                               eps_args.eps_start, eps_args.eps_end)
       IN  /\ epsilon' = r.epsilon
           /\ eps_calls' = eps_calls + 1
           /\ pc' = IF ~r.ok THEN "failed"
                    ELSE IF episode_nr + 1 < hp.num_episodes THEN "reset" ELSE "table"
           /\ raised' = IF r.ok THEN raised ELSE "reduce_epsilon"
           /\ episode_nr' = IF r.ok /\ episode_nr + 1 < hp.num_episodes
                            THEN episode_nr + 1 ELSE episode_nr
    /\ UNCHANGED <<bufVars, eps_args, hp, orch, counts, num_of_conducted_optimisation_steps,
                   policy_net, target_net, loss_logger, hv_logger, occ_log, df,
                   reward_call, auxVars>>

\* After the loop: the table is built and returned
ReturnTable ==
    /\ pc = "table"
    /\ LET t == BuildTable(loss_logger, hv_logger, hp.num_evaluations)
       IN  /\ df' = t.df
           /\ pc' = IF t.ok THEN "done" ELSE "failed"
           /\ raised' = IF t.ok THEN raised ELSE "table"
    /\ UNCHANGED <<bufVars, epsVars, hp, orch, episode_nr, counts,
                   num_of_conducted_optimisation_steps, policy_net, target_net,
                   loss_logger, hv_logger, occ_log, reward_call, auxVars>>

TrainNext ==
    \/ TrainBegin
    \/ EpisodeReset
    \/ EnvStep
    \/ UpdateWeights
    \/ SkipUpdate
    \/ EvaluationRaises
    \/ RunEvaluation
    \/ SkipEvaluation
    \/ EpisodeEnd
    \/ ReturnTable

SpecTrain == TrainInit /\ [][TrainNext]_vars

-----------------------------------------------------------------------------
(* The environment steps of train and of evaluate: a run of train, whose   *)
(* evaluations are single steps, or a run of evaluate.                     *)

WeightsInit == TrainInit \/ EvalInit

WeightsNext == TrainNext \/ EvalNext

SpecWeights == WeightsInit /\ [][WeightsNext]_vars

-----------------------------------------------------------------------------
(* train with its evaluations run step by step.  The call in train asks    *)
(* for 10 weight tuples of 5 repetitions; the model runs CalledEvaluation. *)

CalledEvaluation == [num_points |-> 1, num_repetitions |-> 2]

TrainEvalInit ==
    /\ TrainInit
    /\ hp.num_evaluations # 0
    /\ hp.inv_optimisation_frequency = 1

\* train calls evaluate
CallEvaluate ==
    /\ pc = "evaluate"
    /\ hp.num_evaluations # 0
    /\ EvalInterval(hp.num_episodes, hp.num_evaluations) # 0
    /\ episode_nr % EvalInterval(hp.num_episodes, hp.num_evaluations) = 0
    /\ pc' = "evaluating"
    /\ ev' = [op |-> "evaluate",
              num_points |-> CalledEvaluation.num_points,
              num_repetitions |-> CalledEvaluation.num_repetitions,
              num_controlled_vehicles |-> hp.num_controlled_vehicles,
              tuple_index |-> 0,
              repetition_nr |-> 0,
              curr_num_iterations |-> 0,
              accumulated_reward |-> <<>>,
              objective_weights |-> orch.objective_weights,
              vehicles |-> orch.vehicles,
              eval_env |-> NoEvalEnv,
              before |-> TrainingState,
              kind |-> 0,
              eval_logger |-> <<>>,
              steps |-> <<>>,
              episodes |-> <<>>,
              last_step |-> [by |-> "none", act_weights |-> <<>>,
                             vehicle_weights |-> <<>>]]
    /\ UNCHANGED <<bufVars, epsVars, hp, raised, episode_nr, counts,
                   num_of_conducted_optimisation_steps, policy_net, target_net,
                   loss_logger, hv_logger, occ_log, df, orch, reward_call, env_call,
                   cheb, lin_call, act_call, ctor_call>>

\* evaluate has returned: the hypervolume is logged under the episode
EvaluateReturns ==
    /\ pc = "evaluating"
    /\ ev.op = "returned"
    /\ hv_logger' = Append(hv_logger, [episode |-> episode_nr,
                                       hypervolume |-> HvOf(episode_nr, policy_net)])
    /\ orch' = [orch EXCEPT !.objective_weights = ev.objective_weights]
    /\ ev' = [op |-> "idle"]
    /\ pc' = "decay"
    /\ UNCHANGED <<bufVars, epsVars, hp, raised, episode_nr, counts,
                   num_of_conducted_optimisation_steps, policy_net, target_net,
                   loss_logger, occ_log, df, reward_call, env_call, cheb, lin_call,
                   act_call, ctor_call>>

TrainEvalNext ==
    \/ TrainBegin
    \/ EpisodeReset
    \/ EnvStep
    \/ UpdateWeights
    \/ SkipUpdate
    \/ EvaluationRaises
    \/ CallEvaluate
    \/ EvalNext
    \/ EvaluateReturns
    \/ SkipEvaluation
    \/ EpisodeEnd
    \/ ReturnTable

SpecTrainEval == TrainEvalInit /\ [][TrainEvalNext]_vars

-----------------------------------------------------------------------------
(* Properties of the buffer.                                               *)

F32Seq(v) == [j \in 1..Len(v) |-> ToFloat32(v[j])]

\* The row the latest push wrote
LastRow == buffer[((running_index + rb.size - 1) % rb.size) + 1]

\* Ordinal of the push whose row slot s (0-based) holds after k <= 2C
\* single-sample pushes into a buffer of capacity C, as the ring is described:
\* 0 for a slot never written.
SlotPush(s, k, C) ==
    IF k <= C THEN (IF s < k THEN s + 1 ELSE 0)
    ELSE (IF s < k - C THEN C + s + 1 ELSE s + 1)

\* row is the stored form of the j-th synthetic transition (j = 0: untouched)
HoldsPush(row, j) ==
    IF j = 0 THEN \A c \in 1..Len(row) : row[c] = R(0)
    ELSE \E base \in {0, BigBase} :
            get_observations(rb, <<row>>)[1] = F32Seq(ObsOf(rb, base, j))

\* C1: after k single-sample pushes into an empty buffer of capacity C,
\* num_elements = min(k, C) and running_index = k mod C; always
\* 0 <= running_index < C and 0 <= num_elements <= C, and running_index =
\* num_elements while the buffer is not full; after C + m pushes the slots
\* 0..m-1 hold the m newest transitions and the other slots their first rows.
C1_RingInvariant ==
    /\ 0 <= running_index /\ running_index < rb.size
    /\ 0 <= num_elements /\ num_elements <= rb.size
    /\ (num_elements < rb.size => running_index = num_elements)
    /\ (pushes.calls = pushes.rows) =>
          /\ num_elements = Min2(pushes.rows, rb.size)
          /\ running_index = pushes.rows % rb.size
          /\ \A s \in 0..(rb.size - 1) :
                HoldsPush(buffer[s + 1], SlotPush(s, pushes.rows, rb.size))

\* a buffer of capacity C >= 2 after C + 1 single pushes: slot 0 overwritten,
\* slot 1 not
C1_Witness ==
    /\ rb.size >= 2
    /\ pushes.calls = pushes.rows
    /\ pushes.rows = rb.size + 1
    /\ last.op = "push" /\ last.ok

\* Which accessors answer to a row that is zero but for column c
Responders(cfg, c) ==
    LET e == <<[j \in 1..RowWidth(cfg) |-> IF j = c THEN R(1) ELSE R(0)]>>
    IN  {k \in 1..6 :
            CASE k = 1 -> \E j \in 1..Len(get_observations(cfg, e)[1]) :
                              get_observations(cfg, e)[1][j] # R(0)
              [] k = 2 -> get_actions(cfg, e)[1][1][1] # 0
              [] k = 3 -> \E j \in 1..Len(get_next_obs(cfg, e)[1]) :
                              get_next_obs(cfg, e)[1][j] # R(0)
              [] k = 4 -> \E j \in 1..Len(get_rewards(cfg, e)[1]) :
                              get_rewards(cfg, e)[1][j] # R(0)
              [] k = 5 -> get_termination_flag(cfg, e)[1]
              [] k = 6 -> get_importance_sampling_id(cfg, e)[1] # R(0)}

\* The column slices are pairwise disjoint and cover all 2L + O + 3 columns,
\* and get_actions has shape (batch, O, 1).
LayoutPartition ==
    /\ RowWidth(rb) = 2 * rb.observation_space_size + rb.num_objectives + 3
    /\ \A c \in 1..RowWidth(rb) : Cardinality(Responders(rb, c)) = 1
    /\ Len(get_actions(rb, <<LastRow>>)) = 1
    /\ Len(get_actions(rb, <<LastRow>>)[1]) = rb.num_objectives
    /\ \A o \in 1..rb.num_objectives : Len(get_actions(rb, <<LastRow>>)[1][o]) = 1

SinglePushDone == last.op = "push" /\ last.ok /\ ~last.a.batched

\* C7 as claimed: after one pushed transition the accessors give back exactly
\* the pushed observation, next observation, reward vector, flag and id, and
\* the action once per objective; the slices partition the columns.
C7_RoundTripExact ==
    SinglePushDone =>
        /\ get_observations(rb, <<LastRow>>) = <<last.a.obs>>
        /\ get_next_obs(rb, <<LastRow>>) = <<last.a.next_obs>>
        /\ get_rewards(rb, <<LastRow>>) = <<last.a.reward>>
        /\ get_termination_flag(rb, <<LastRow>>) = <<last.a.terminated>>
        /\ get_importance_sampling_id(rb, <<LastRow>>) = <<last.a.id.val>>
        /\ get_actions(rb, <<LastRow>>) =
              <<[o \in 1..rb.num_objectives |-> <<last.a.action>>]>>
        /\ LayoutPartition

\* C7, amended: the accessors give back the pushed values as rounded to the
\* buffer's single precision, the flag exactly, the id only when importance
\* sampling is enabled (0 otherwise); the slices partition the columns.
C7_RoundTripFloat32 ==
    SinglePushDone =>
        /\ get_observations(rb, <<LastRow>>) = <<F32Seq(last.a.obs)>>
        /\ get_next_obs(rb, <<LastRow>>) = <<F32Seq(last.a.next_obs)>>
        /\ get_rewards(rb, <<LastRow>>) = <<F32Seq(last.a.reward)>>
        /\ get_termination_flag(rb, <<LastRow>>) = <<last.a.terminated>>
        /\ get_importance_sampling_id(rb, <<LastRow>>) =
              <<IF rb.importance_sampling THEN ToFloat32(last.a.id.val) ELSE R(0)>>
        /\ get_actions(rb, <<LastRow>>) =
              <<[o \in 1..rb.num_objectives |-> <<ToInt64(ToFloat32(R(last.a.action)))>>]>>
        /\ \A j \in 1..Len(last.a.obs) :
              ToFloat32(last.a.obs[j]) = last.a.obs[j]
                  => get_observations(rb, <<LastRow>>)[1][j] = last.a.obs[j]
        /\ LayoutPartition

\* a transition of observation length 2 and 2 objectives was pushed and read
C7_Witness ==
    /\ SinglePushDone
    /\ rb.observation_space_size = 2 /\ rb.num_objectives = 2
    /\ rb.importance_sampling
    /\ last.a.terminated
    /\ last.a.id.val = R(10)
    /\ get_rewards(rb, <<LastRow>>) = <<last.a.reward>>

\* C8: push fails when importance sampling is on and no id is given, or when
\* num_samples < 1; an id of 0 counts as given; the failing push leaves
\* buffer, running_index and num_elements as they were.
C8_PushPreconditions ==
    [][last'.op = "push" =>
          /\ (rb.importance_sampling /\ ~last'.a.id.given) => ~last'.ok
          /\ last'.a.num_samples < 1 => ~last'.ok
          /\ (~last'.a.batched /\ last'.a.num_samples = 1
                /\ (last'.a.id.given \/ ~rb.importance_sampling)) => last'.ok
          /\ ((rb.importance_sampling /\ ~last'.a.id.given) \/ last'.a.num_samples < 1)
                => UNCHANGED <<buffer, running_index, num_elements>>]_vars

\* a push without id failed on a buffer that already held rows
C8_Witness ==
    /\ last.op = "push" /\ ~last.ok
    /\ rb.importance_sampling /\ ~last.a.id.given
    /\ num_elements >= 1

\* id and flag of occupied row i (1-based)
IdOfRow(i) == buffer[i][RowWidth(rb)]

FlagOfRow(i) == buffer[i][RowWidth(rb) - 1] # R(0)

\* The least id among the occupied rows
MinOccupiedId ==
    CHOOSE m \in {IdOfRow(j).n : j \in 1..num_elements} :
        \A j \in 1..num_elements : m <= IdOfRow(j).n

\* The selection weight of occupied row i as the sampling rule states it, up
\* to the common factor of the uniform case
StatedWeight(i) ==
    LET base == IF rb.importance_sampling
                THEN IdOfRow(i).n - MinOccupiedId + 1
                ELSE 1
    IN  IF rb.prioritise_crashes /\ FlagOfRow(i) THEN 2 * base ELSE base

\* C9: with importance sampling off all occupied rows weigh the same, with it
\* on a row weighs id - (least id of the occupied rows) + 1, so at least 1 and
\* more for a higher id; prioritise_crashes doubles the weight of rows whose
\* flag is set; the probabilities are the weights over their sum.
C9_SampleWeights ==
    (last.op = "sample" /\ last.ok) =>
        LET p == last.ret.probs
            w == last.ret.weights
            total == SumSeq([i \in 1..num_elements |-> R(StatedWeight(i))], num_elements)
        IN  /\ Len(p) = num_elements /\ Len(w) = num_elements
            /\ \A i \in 1..num_elements :
                  /\ StatedWeight(i) >= 1
                  /\ w[i] = IF rb.importance_sampling THEN R(StatedWeight(i))
                            ELSE Rat(StatedWeight(i), num_elements)
                  /\ p[i] = Rat(StatedWeight(i), total.n)
            /\ SumSeq(p, Len(p)) = R(1)
            /\ \A i, j \in 1..num_elements :
                  (rb.importance_sampling /\ RLess(IdOfRow(i), IdOfRow(j))
                     /\ (FlagOfRow(i) = FlagOfRow(j) \/ ~rb.prioritise_crashes))
                  => RLess(p[i], p[j])
            /\ (~rb.importance_sampling /\ ~rb.prioritise_crashes) =>
                  \A i \in 1..num_elements : p[i] = Rat(1, num_elements)

\* a sample over rows with ids 5 and 10, the first of them flagged
C9_Witness ==
    /\ last.op = "sample" /\ last.ok
    /\ rb.importance_sampling /\ rb.prioritise_crashes
    /\ \E i, j \in 1..num_elements :
          /\ IdOfRow(i) = R(5) /\ IdOfRow(j) = R(10)
          /\ FlagOfRow(i) /\ ~FlagOfRow(j)

-----------------------------------------------------------------------------
(* C6: epsilon decay.                                                      *)

\* epsilon - eps_end, on the grid
EpsAboveEnd == DSub(epsilon, eps_args.eps_end)

\* max_iteration roundings of half a unit in the last place of 1.0: 2^-53 each
DecayTolerance == <<0, 0, 0, eps_args.max_iteration * Pow2(7)>>

EpsInRange ==
    /\ ~DLess(epsilon, eps_args.eps_end)
    /\ ~DLess(eps_args.eps_start, epsilon)

-----------------------------------------------------------------------------
(* C2: the pushes of an environment step.                                  *)

\* The row push stores for vehicle j of its last call
PushedRow(j) ==
    F32Seq(Concatenate(last.a.obs[j], last.a.action[j], last.a.next_obs[j],
                       last.a.reward[j], last.a.terminated[j], R(episode_nr)))

\* The slot written for vehicle j of the n vehicles of the last call
SlotOfVehicle(j, n) == ((running_index + 2 * rb.size * n - 1 - (n - j)) % rb.size) + 1

\* Each environment step so far has pushed one row per controlled vehicle,
\* and the rows of the last step lie in vehicle order, tagged with the
\* episode index.
StepPushes ==
    LET n == hp.num_controlled_vehicles
    IN  /\ raised # "push"
        /\ pushes.rows = counts.total_steps * n
        /\ num_elements = Min2(counts.total_steps * n, rb.size)
        /\ (last.op = "push" /\ pc \in {"step", "optimise"}
                /\ counts.steps_in_episode > 0) =>
              \A j \in (n - Min2(n, rb.size) + 1)..n :
                  buffer[SlotOfVehicle(j, n)] = PushedRow(j)

\* C2 as stated: in train, for every number n >= 1 of controlled vehicles,
\* each environment step pushes exactly n transitions, in vehicle order and
\* tagged with the episode index, so that the occupancy after s steps is
\* min(s * n, capacity).
C2_PushPerStep == pc \notin {"idle", "train"} => StepPushes

-----------------------------------------------------------------------------
(* C3: when optimisation steps happen.                                     *)

\* Optimisation steps logged for episode e
StepsOfEpisode(e) == {k \in 1..Len(loss_logger) : loss_logger[k].episode = e}

\* C3: an optimisation step, and with it a call of sample, happens at the
\* end of episode e exactly when e mod inv_optimisation_frequency = 0 and
\* the buffer is full; there is at most one per episode, the counter counts
\* the steps performed, and sample is never called on an empty or partly
\* filled buffer.
C3_OptimisationSchedule ==
    /\ \A e \in 0..(Len(occ_log) - 1) :
          Cardinality(StepsOfEpisode(e)) =
              IF e % hp.inv_optimisation_frequency = 0 /\ occ_log[e + 1] = rb.size
              THEN 1 ELSE 0
    /\ \A k \in 1..Len(loss_logger) : loss_logger[k].episode < Len(occ_log)
    /\ num_of_conducted_optimisation_steps = Len(loss_logger)
    /\ policy_net = Len(loss_logger)
    /\ counts.sample_calls = Len(loss_logger)
    /\ last.op = "sample" => last.ok /\ num_elements = rb.size /\ num_elements > 0

\* An episode skipped for a partly filled buffer, one skipped for the
\* frequency with the buffer full, and one with an optimisation step.
C3_Witness ==
    /\ \E e \in 0..(Len(occ_log) - 1) :
          e % hp.inv_optimisation_frequency = 0 /\ occ_log[e + 1] < rb.size
    /\ \E e \in 0..(Len(occ_log) - 1) :
          e % hp.inv_optimisation_frequency # 0 /\ occ_log[e + 1] = rb.size
    /\ \E e \in 0..(Len(occ_log) - 1) : StepsOfEpisode(e) # {}
    /\ last.op = "sample"

-----------------------------------------------------------------------------
(* C4: target-network synchronisation.                                     *)

IsOptimisationStep ==
    num_of_conducted_optimisation_steps' = num_of_conducted_optimisation_steps + 1

CounterIsMultiple ==
    num_of_conducted_optimisation_steps % hp.inv_target_update_frequency = 0

\* C4: the target parameters are overwritten with the policy parameters
\* exactly in the optimisation steps whose zero-based counter is a multiple
\* of inv_target_update_frequency, after the optimiser step (so that target
\* equals policy afterwards); no other step of train changes them.
C4_TargetSync ==
    [][/\ (IsOptimisationStep /\ CounterIsMultiple) =>
              (policy_net' = policy_net + 1 /\ target_net' = policy_net')
       /\ (IsOptimisationStep /\ ~CounterIsMultiple) =>
              (policy_net' = policy_net + 1 /\ target_net' = target_net)
       /\ ~IsOptimisationStep =>
              (target_net' = target_net /\ policy_net' = policy_net)]_vars

\* After a synchronising first step and a second step that does not
\* synchronise, the target network is one version behind.
C4_Witness ==
    /\ pc = "evaluate"
    /\ hp.inv_target_update_frequency = 2
    /\ num_of_conducted_optimisation_steps = 2
    /\ policy_net = 2
    /\ target_net = 1

-----------------------------------------------------------------------------
(* C5: the table train returns.                                            *)

\* The episode of the first optimisation step
FirstOptimisedEpisode == loss_logger[1].episode

EvaluatedEpisodes == {hv_logger[k].episode : k \in 1..Len(hv_logger)}

\* Row i of the table describes episode i
RowDescribesEpisode(row, i) ==
    /\ IF Len(loss_logger) = 0 \/ i < FirstOptimisedEpisode
       THEN IsNaN(row.episode) /\ IsNaN(row.loss)
       ELSE /\ row.episode = R(i)
            /\ \E k \in StepsOfEpisode(i) : row.loss = loss_logger[k].loss
    /\ hp.num_evaluations # 0 =>
          /\ ~IsNaN(row.hypervolume) <=> i \in EvaluatedEpisodes
          /\ \A k \in 1..Len(hv_logger) :
                hv_logger[k].episode = i => row.hypervolume = hv_logger[k].hypervolume

\* C5 as stated: for every choice of num_episodes, inv_optimisation_frequency,
\* capacity and num_evaluations, row i of the table train returns describes
\* episode i: not-a-number before the first optimisation step, afterwards
\* episode = i with that episode's loss, and the hypervolume exactly on the
\* rows of the evaluated episodes.
C5_TableIndexedByEpisode ==
    pc = "done" =>
        \A i \in 0..(Len(df.rows) - 1) : RowDescribesEpisode(df.rows[i + 1], i)

-----------------------------------------------------------------------------
(* C10: the crash short-circuit of compute_reward_summary.                 *)

RewardReturned == reward_call.op = "compute_reward_summary" /\ reward_call.ok

AllCrashed ==
    \A i \in 1..reward_call.cfg.num_controlled_vehicles : reward_call.crashed[i]

\* C10: whenever compute_reward_summary returns, its result has one entry
\* per controlled vehicle, in vehicle order, and the entry of a crashed
\* vehicle is row 0 of that vehicle's raw rewards whatever its weights and
\* the reward structure are; when every vehicle is crashed it returns for
\* every weight matrix and reward structure.
C10_CrashShortCircuit ==
    reward_call.op = "compute_reward_summary" =>
        /\ AllCrashed => reward_call.ok
        /\ reward_call.ok =>
              /\ Len(reward_call.out) = reward_call.cfg.num_controlled_vehicles
              /\ \A i \in 1..reward_call.cfg.num_controlled_vehicles :
                    reward_call.out[i] =
                        IF reward_call.crashed[i]
                        THEN reward_call.rewards[i][1]
                        ELSE VehicleSummary(reward_call.cfg, reward_call.rewards[i],
                                            reward_call.obj_weights[i], FALSE).val

\* Two vehicles, the second crashed with weights that would have changed
\* its row 0, the first not crashed.
C10_Witness ==
    /\ RewardReturned
    /\ reward_call.cfg.num_controlled_vehicles = 2
    /\ ~reward_call.crashed[1]
    /\ reward_call.crashed[2]
    /\ reward_call.obj_weights[2] = WeightList("two")
    /\ reward_call.out[2] = reward_call.rewards[2][1]
    /\ reward_call.out[1] # reward_call.rewards[1][1]

-----------------------------------------------------------------------------
(* C11: weighting and averaging in compute_reward_summary.                 *)

\* w'[j]: the weight vector, or 1/num_objectives in every slot when it is
\* all zero
SubstitutedWeight(w, num_objectives) ==
    IF \E o \in 1..Len(w) : w[o] # R(0) THEN w
    ELSE [o \in 1..Len(w) |-> Rat(1, num_objectives)]

\* The mean over the weight rows j of reward[j] * w'[j]
StatedMean(r, weights, num_objectives) ==
    [o \in 1..num_objectives |->
        RDivInt(SumSeq([j \in 1..Len(weights) |->
                           RMul(r[j][o], SubstitutedWeight(weights[j], num_objectives)[o])],
                       Len(weights)),
                Len(weights))]

\* reward[0] * w'[0]
StatedEgo(r, weights, num_objectives) ==
    [o \in 1..num_objectives |->
        RMul(r[1][o], SubstitutedWeight(weights[1], num_objectives)[o])]

\* Some reward row beyond the weight rows holds a number
ExcessNotNaN(r, weights) ==
    \E k \in (Len(weights) + 1)..Len(r) : \E o \in 1..Len(r[k]) : ~IsNaN(r[k][o])

\* C11: for a non-crashed vehicle whose reward matrix has at least as many
\* rows as its weight matrix, a returned mean_reward summary is the mean
\* over the weight rows j of reward[j] * w'[j], with w'[j] = 1/num_objectives
\* in every slot for an all-zero weight vector; a returned ego_reward summary
\* is reward[0] * w'[0]; reward rows beyond the weight rows are dropped when
\* they are all not-a-number, and the call fails when one of them is not.
C11_WeightedSummary ==
    reward_call.op = "compute_reward_summary" =>
        \A i \in 1..reward_call.cfg.num_controlled_vehicles :
            LET r == reward_call.rewards[i]
                w == reward_call.obj_weights[i]
                O == reward_call.cfg.num_objectives
            IN  (~reward_call.crashed[i] /\ Len(r) >= Len(w)) =>
                    /\ ExcessNotNaN(r, w) => ~reward_call.ok
                    /\ (reward_call.ok /\ reward_call.cfg.reward_structure = "mean_reward")
                          => reward_call.out[i] = StatedMean(r, w, O)
                    /\ (reward_call.ok /\ reward_call.cfg.reward_structure = "ego_reward")
                          => reward_call.out[i] = StatedEgo(r, w, O)

\* A mean_reward summary over a dropped not-a-number row and an all-zero
\* weight vector.
C11_Witness ==
    /\ RewardReturned
    /\ reward_call.cfg.reward_structure = "mean_reward"
    /\ ~reward_call.crashed[1]
    /\ reward_call.rewards[1] = RewardMatrix("nan_tail", 1)
    /\ reward_call.obj_weights[1] = WeightList("two")
    /\ reward_call.out[1] = <<Rat(15, 8), Rat(7, 2)>>

-----------------------------------------------------------------------------
(* C12: the bounds of MOHighwayEnv._reward.                                *)

InUnitInterval(x) == RLeq(R(0), x) /\ RLeq(x, R(1))

\* C12 as stated: with normalize_reward set and no collision both
\* components of _reward lie in [0, 1], and whenever the controlled vehicle
\* has crashed both components are exactly 0.
C12_RewardBounds ==
    env_call.op = "_reward" =>
        /\ (env_call.config.normalize_reward /\ ~env_call.state.crashed) =>
               (InUnitInterval(env_call.out[1]) /\ InUnitInterval(env_call.out[2]))
        /\ env_call.state.crashed => env_call.out = <<R(0), R(0)>>

-----------------------------------------------------------------------------
(* C13 and C19: ChebyshevScalarisation.                                    *)

\* x is the maximum of the non-empty set S of numbers
IsMaxOf(x, S) == x \in S /\ \A y \in S : RLeq(y, x)

\* C13: over any sequence of scalarise_actions calls z_star never
\* decreases in any objective, and after each call z_star[o] is the maximum
\* of its initial value and every Q[o, a] passed in so far.
C13_UtopianTracking ==
    cheb.op = "scalarise_actions" =>
        \A o \in DOMAIN cheb.z_star :
            /\ RLeq(cheb.z_before[o], cheb.z_star[o])
            /\ IsMaxOf(cheb.z_star[o], cheb.seen[o] \cup {cheb.initial[o]})

\* A call whose Q-values for objective 1 are all below a z_star that an
\* earlier call raised above its initial value
C13_Witness ==
    /\ cheb.op = "scalarise_actions"
    /\ RLess(cheb.initial[1], cheb.z_star[1])
    /\ \A a \in DOMAIN cheb.q[1] : RLess(cheb.q[1][a], cheb.z_star[1])

\* The stated utility of action a: the largest weighted distance of its
\* Q-values from z_star + threshold
StatedUtility(a) ==
    LET D == {RMul(cheb.weights[o],
                   RAbs(RSub(cheb.q[o][a], RAdd(cheb.z_star[o], cheb.threshold)))) :
                 o \in DOMAIN cheb.z_star}
    IN  CHOOSE x \in D : \A y \in D : RLeq(y, x)

\* C19: scalarise_actions updates z_star with the incoming Q-values first
\* and returns one utility per action, utility(a) = max over o of
\* weight[o] * |Q[o, a] - (z_star[o] + threshold)| with the updated z_star,
\* which is >= 0 when the weights are non-negative.
C19_ChebyshevUtility ==
    cheb.op = "scalarise_actions" =>
        /\ cheb.z_star = [o \in DOMAIN cheb.z_before |->
                             CHOOSE x \in {cheb.z_before[o]} \cup
                                          {cheb.q[o][a] : a \in DOMAIN cheb.q[o]} :
                                 \A a \in DOMAIN cheb.q[o] :
                                     RLeq(cheb.q[o][a], x) /\ RLeq(cheb.z_before[o], x)]
        /\ DOMAIN cheb.out = DOMAIN cheb.q[1]
        /\ \A a \in DOMAIN cheb.out :
              /\ cheb.out[a] = StatedUtility(a)
              /\ (\A o \in DOMAIN cheb.weights : RLeq(R(0), cheb.weights[o])) =>
                     RLeq(R(0), cheb.out[a])

\* A call that raised z_star[1] and returned utilities measured from the
\* raised value: Q = ((2, 0), (0, 0)) on z_star = (0, 0), threshold 0
C19_Witness ==
    /\ cheb.op = "scalarise_actions"
    /\ cheb.z_before = <<R(0), R(0)>>
    /\ cheb.threshold = R(0)
    /\ cheb.q = <<<<R(2), R(0)>>, <<R(0), R(0)>>>>
    /\ cheb.weights = <<Rat(1, 4), Rat(3, 4)>>
    /\ cheb.z_star = <<R(2), R(0)>>
    /\ cheb.out = <<R(0), Rat(1, 2)>>

-----------------------------------------------------------------------------
(* C14: LinearScalarisation.                                               *)

\* The weighted sum over the objectives in S of the Q-values of action a
RECURSIVE WeightedSumOver(_, _, _, _)
WeightedSumOver(S, q, weights, a) ==
    IF S = {} THEN R(0)
    ELSE LET o == CHOOSE x \in S : TRUE
         IN  RAdd(RMul(weights[o], q[o][a]), WeightedSumOver(S \ {o}, q, weights, a))

\* C14: scalarise_actions returns one utility per action, utility(a) = sum
\* over objectives o of weight[o] * Q[o, a], and a call made with the
\* arguments of the call before it returns what that call returned.
C14_LinearUtility ==
    lin_call.op = "scalarise_actions" =>
        /\ DOMAIN lin_call.out = DOMAIN lin_call.q[1]
        /\ \A a \in DOMAIN lin_call.out :
              lin_call.out[a] =
                  WeightedSumOver(DOMAIN lin_call.q, lin_call.q, lin_call.weights, a)
        /\ (lin_call.previous.q = lin_call.q /\
            lin_call.previous.weights = lin_call.weights) =>
               lin_call.previous.out = lin_call.out

\* Two calls in a row on a 2 x 3 matrix with the weights (1/4, 3/4)
C14_Witness ==
    /\ lin_call.op = "scalarise_actions"
    /\ lin_call.q = <<<<R(0), R(1), R(2)>>, <<R(2), Rat(-1, 2), R(0)>>>>
    /\ lin_call.weights = <<Rat(1, 4), Rat(3, 4)>>
    /\ lin_call.out = <<Rat(3, 2), Rat(-1, 8), Rat(1, 2)>>
    /\ lin_call.previous.q = lin_call.q
    /\ lin_call.previous.weights = lin_call.weights

-----------------------------------------------------------------------------
(* C15: MOMA_DQN.act.                                                      *)

\* The utility of the 0-based action a for an observation: the network
\* output read as an (objectives x actions) matrix, scalarised under the
\* orchestrator's objective weights
UtilityOf(single_obs, a) ==
    WeightedSumOver(1..DefaultObjectives,
                    [o \in 1..DefaultObjectives |->
                        [b \in 1..NumActions |->
                            PolicyOutput(single_obs)[(o - 1) * NumActions + b]]],
                    act_call.objective_weights, a + 1)

\* a is the arg-max of the utilities (the first one among equals)
IsGreedy(single_obs, a) ==
    /\ \A b \in 0..(NumActions - 1) : RLeq(UtilityOf(single_obs, b), UtilityOf(single_obs, a))
    /\ \A b \in 0..(a - 1) : RLess(UtilityOf(single_obs, b), UtilityOf(single_obs, a))

\* C15: act returns one action per observation, in order, each in
\* [0, num_actions); without eps_greedy every action is the arg-max of the
\* scalarised network output; with eps_greedy a vehicle takes the greedy
\* action exactly when its draw exceeds epsilon, and the index drawn by
\* rng.choice otherwise.
C15_Act ==
    act_call.op = "act" =>
        /\ Len(act_call.out) = Len(act_call.obs)
        /\ \A i \in DOMAIN act_call.obs :
              /\ act_call.out[i] \in 0..(NumActions - 1)
              /\ ~act_call.eps_greedy => IsGreedy(act_call.obs[i], act_call.out[i])
              /\ (act_call.eps_greedy /\ RLess(act_call.epsilon, act_call.draws[i])) =>
                     IsGreedy(act_call.obs[i], act_call.out[i])
              /\ (act_call.eps_greedy /\ ~RLess(act_call.epsilon, act_call.draws[i])) =>
                     (act_call.choices[i] # NoChoice /\ act_call.out[i] = act_call.choices[i])

\* Two vehicles under eps_greedy with epsilon 1/2: the first draws 3/4 and
\* acts greedily, the second draws 1/2 and takes the random index
C15_Witness ==
    /\ act_call.op = "act"
    /\ act_call.eps_greedy
    /\ act_call.epsilon = Rat(1, 2)
    /\ act_call.obs = <<"a", "b">>
    /\ act_call.objective_weights = <<Rat(1, 4), Rat(3, 4)>>
    /\ act_call.draws = <<Rat(3, 4), Rat(1, 2)>>
    /\ act_call.out = <<4, 3>>

-----------------------------------------------------------------------------
(* C17: construction without an environment.                               *)

\* Arguments that are valid apart from the environment
OtherwiseValid(args) ==
    /\ NumObjectiveNames(args) = args.num_objectives
    /\ args.observation_space_known
    /\ ~args.seed_none

\* C17 as stated: construction with env = None and otherwise valid
\* arguments completes without failing.
C17_ConstructWithoutEnv ==
    (ctor_call.op = "__init__" /\ ctor_call.args.env.is_none /\
     OtherwiseValid(ctor_call.args)) => ctor_call.raised = ""

-----------------------------------------------------------------------------
(* C18: ReplayBuffer.sample.                                               *)

\* The integer nearest to x, the even one of two equally near
NearestInteger(x) ==
    CHOOSE m \in (-Abs(x.n) - 1)..(Abs(x.n) + 1) :
        LET twice == RAbs(RSub(RMul(R(2), x), R(2 * m)))
        IN  RLess(twice, R(1)) \/ (twice = R(1) /\ m % 2 = 0)

\* C18: sample on a buffer with num_elements >= 1 succeeds for every
\* sample_size, returns max(1, round(sample_size)) rows, each equal to a
\* row at an index in [0, num_elements), and leaves the buffer contents,
\* running_index and num_elements unchanged.
C18_SampleFrame ==
    [][(last'.op = "sample" /\ num_elements >= 1) =>
          /\ last'.ok
          /\ Len(last'.ret.rows) = Max2(1, NearestInteger(last'.a))
          /\ \A b \in DOMAIN last'.ret.rows :
                \E i \in 0..(num_elements - 1) : last'.ret.rows[b] = buffer[i + 1]
          /\ UNCHANGED <<buffer, running_index, num_elements>>]_vars

\* A sample of size 1/2 that returned one row of a buffer holding several
C18_Witness ==
    /\ last.op = "sample" /\ last.ok
    /\ num_elements >= 2
    /\ last.a = Rat(1, 2)
    /\ Len(last.ret.rows) = 1
    /\ last.ret.rows[1] = buffer[2]

-----------------------------------------------------------------------------
(* C16: the summary log of evaluate.                                       *)

\* The sum of the ego rewards of vehicle i (0-based) over the first t steps
RECURSIVE EgoSum(_, _, _)
EgoSum(steps, i, t) ==
    IF t = 0 THEN [o \in 1..DefaultObjectives |-> R(0)]
    ELSE VecAdd(EgoSum(steps, i, t - 1), steps[t][i + 1])

\* Record k (0-based) of the summary log describes vehicle k mod n of
\* episode k div n, the episodes counted by weight tuple, then repetition
RecordDescribes(k) ==
    LET rec == ev.eval_logger[k + 1]
        n == ev.num_controlled_vehicles
        e == k \div n
        steps == ev.episodes[e + 1]
    IN  /\ rec.vehicle_id = k % n
        /\ rec.weight_index = e \div ev.num_repetitions
        /\ rec.repetition_number = e % ev.num_repetitions
        /\ rec.weight_tuple = ReferenceDirections(ev.num_points)[rec.weight_index + 1]
        /\ rec.num_iterations = Len(steps)
        /\ rec.num_iterations >= 1
        /\ rec.raw = EgoSum(steps, rec.vehicle_id, Len(steps))
        /\ \A o \in DOMAIN rec.raw :
              RMul(rec.normalised[o], R(rec.num_iterations)) = rec.raw[o]

\* C16: the summary log of evaluate holds one record per (weight tuple,
\* repetition, controlled vehicle), num_points * num_repetitions * n in
\* all, ordered by weight-tuple index, repetition and vehicle id; a record's
\* num_iterations >= 1 is the step count of its episode, its raw values are
\* the sums of the vehicle's ego rewards, and normalised = raw /
\* num_iterations.
C16_EvaluationSummary ==
    ev.op \notin {"idle", "evaluate"} =>
        /\ Len(ev.eval_logger) = ev.num_controlled_vehicles * Len(ev.episodes)
        /\ ev.op = "returned" =>
               Len(ev.eval_logger) =
                   ev.num_points * ev.num_repetitions * ev.num_controlled_vehicles
        /\ \A k \in 0..(Len(ev.eval_logger) - 1) : RecordDescribes(k)

\* evaluate has returned eight records, the last one of an episode of two
\* steps
C16_Witness ==
    /\ ev.op = "returned"
    /\ Len(ev.eval_logger) = 8
    /\ ev.eval_logger[8].num_iterations = 2
    /\ ev.eval_logger[8].vehicle_id = 1
    /\ ev.eval_logger[8].weight_index = 1
    /\ ev.eval_logger[8].repetition_number = 1
    /\ ev.eval_logger[8].raw = <<Rat(3, 2), R(4)>>

-----------------------------------------------------------------------------
(* C20: the objective weights of the controlled vehicles.                  *)

\* What an environment step saw: every controlled vehicle carried the
\* weights act used
StepWeightsAgree(step) ==
    \A i \in DOMAIN step.vehicle_weights : step.vehicle_weights[i] = step.act_weights

\* During the steps of a training episode the vehicles of self.env carry
\* the weights drawn after its reset
TrainWeightsHeld ==
    pc = "step" =>
        /\ orch.objective_weights = DrawnWeights(episode_nr)
        /\ \A i \in DOMAIN orch.vehicles : orch.vehicles[i] = orch.objective_weights

\* During the steps of an evaluation episode the vehicles of eval_env carry
\* the current weight tuple
EvalWeightsHeld ==
    ev.op \in {"step", "log"} =>
        /\ ev.objective_weights = ReferenceDirections(ev.num_points)[ev.tuple_index + 1]
        /\ \A i \in DOMAIN ev.vehicles : ev.vehicles[i] = ev.objective_weights

\* The vehicles' weights change at a reset only, and the orchestrator's
\* weights of an evaluation at the head of a weight tuple only
WeightsChangeAtReset ==
    /\ (pc \notin {"idle", "reset"}) => orch'.vehicles = orch.vehicles
    /\ (ev.op \notin {"idle", "reset"} /\ ev'.op # "idle") =>
           ev'.vehicles = ev.vehicles
    /\ (ev.op \notin {"idle", "tuple"} /\ ev'.op # "idle") =>
           ev'.objective_weights = ev.objective_weights

\* C20: at every environment step of train and of evaluate every controlled
\* vehicle of the stepped environment carries the objective weights act
\* uses for that step; they are assigned after the reset, before the first
\* step, and stay until the next reset or the next weight tuple.
C20_VehicleWeights ==
    /\ [](/\ (pc # "idle" /\ orch.last_step.by = "train") =>
                 StepWeightsAgree(orch.last_step)
          /\ (ev.op # "idle" /\ ev.last_step.by = "evaluate") =>
                 StepWeightsAgree(ev.last_step)
          /\ TrainWeightsHeld
          /\ EvalWeightsHeld)
    /\ [][WeightsChangeAtReset]_vars

\* A step of the second training episode with two controlled vehicles,
\* after an evaluation has replaced the orchestrator's weights
C20_Witness ==
    /\ pc = "step"
    /\ hp.num_controlled_vehicles = 2
    /\ episode_nr = 1
    /\ Len(hv_logger) >= 1
    /\ counts.steps_in_episode >= 1
    /\ orch.last_step.by = "train"
    /\ orch.last_step.vehicle_weights = <<DrawnWeights(1), DrawnWeights(1)>>

-----------------------------------------------------------------------------
(* C21: what evaluate leaves alone.                                        *)

\* The steps of the episodes evaluate has finished
RECURSIVE StepsOfEpisodes(_)
StepsOfEpisodes(episodes) ==
    IF episodes = <<>> THEN 0 ELSE Len(Head(episodes)) + StepsOfEpisodes(Tail(episodes))

\* The environment steps evaluate has made since it was called
EvalStepsMade ==
    StepsOfEpisodes(ev.episodes) + IF ev.op \in {"step", "log"} THEN Len(ev.steps) ELSE 0

\* C21: from the call of evaluate inside train to its return, the replay
\* buffer contents, running_index, num_elements, epsilon, the counter of
\* optimisation steps and the parameters of both networks are what they
\* were at the call, and every step of evaluate is made on its own copy of
\* the environment, none on the training environment.
C21_EvaluateFrame ==
    pc = "evaluating" =>
        /\ TrainingState = ev.before
        /\ ~ev.eval_env.shared
        /\ counts.total_steps = ev.before.env_steps
        /\ ev.op # "evaluate" =>
               ev.eval_env.steps = ev.before.env_steps + EvalStepsMade

\* evaluate has returned inside train after stepping its copy, on a full
\* buffer, with a decayed epsilon and updated networks
C21_Witness ==
    /\ pc = "evaluating"
    /\ ev.op = "returned"
    /\ ev.eval_env.steps > ev.before.env_steps
    /\ num_elements = rb.size
    /\ policy_net >= 1
    /\ episode_nr >= 1
    /\ epsilon # Double_0_9

====
